---- MODULE Spec2Model ----
(***************************************************************************)
(* A model of the nixdoc doc-comment parser (src/src/parser.rs,            *)
(* src/src/section.rs, src/src/lib.rs).                                    *)
(*                                                                         *)
(* Text is a sequence of one-character strings.  The parse entry point is  *)
(* modelled as a state machine: ParseStart (delimiters, normalize, empty   *)
(* check), one SectionsLine step per iteration of the segmenter's loop,    *)
(* SectionsEnd (the final flush) and ClassifyWarnings (the UnknownSection  *)
(* loop).  Pure helpers of the code are operators with the code's names.   *)
(*                                                                         *)
(* Five specifications share the variables:                                *)
(*   Spec     parse on comments built from lines of a small vocabulary;    *)
(*   SpecDoc  parse on documents with the recognised sections, followed by *)
(*            one call of an accessor of DocComment (lib.rs 136-295);      *)
(*   SpecSub  parse_arguments, parse_examples, extract_first_code_block,   *)
(*            parse_fence_open and is_closing_fence called on an argument  *)
(*            of their own (parser.rs 102-145, 262-394);                   *)
(*   SpecFfi  nixdoc_parse_into and nixdoc_free (ffi.rs 59-96);            *)
(*   SpecDelimiters  parse followed by is_doc_comment on the same text     *)
(*            (lib.rs 116-119).                                            *)
(***************************************************************************)
EXTENDS Integers, Sequences, FiniteSets, TLC

VARIABLES
    input,              \* the &str handed to parse
    pc,                 \* position in parse: "start" | "sections" | "flushed" | "done";
                        \* the function about to be called; "returned" after it
    result,             \* "none" | "NotDocComment" | "UnclosedComment" | "EmptyComment" | "Ok"
    content,            \* normalize(inner); DocComment.raw_content on success
    lines,              \* content.lines(), the iterator of parse_sections
    idx,                \* number of lines the loop has consumed
    in_description,     \* parse_sections locals ...
    in_code_block,
    fence_char,
    fence_len,
    current_heading,    \* Option<String>: <<>> is None, <<h>> is Some(h)
    description_lines,
    section_lines,
    sections,           \* Vec<Section>
    warnings,           \* Vec<ParseWarning>
    description,        \* DocComment.description
    call,               \* an accessor or sub-parser call: its name, argument and return value
    ffi                 \* the C boundary: the caller's pointers, the slot *out_doc, the status

vars == << input, pc, result, content, lines, idx, in_description, in_code_block,
           fence_char, fence_len, current_heading, description_lines,
           section_lines, sections, warnings, description, call, ffi >>

(***************************************************************************)
(* Bounds of the model.                                                    *)
(***************************************************************************)
\* Largest number of body lines of an input put between "/**" and "*/".
MaxLines == 3
\* Largest number of body lines of an input with other text around the body.
MaxWrapLines == 1

(***************************************************************************)
(* Text primitives (Rust's str methods used by the parser).                *)
(***************************************************************************)
\* A string literal as a sequence of one-character strings.
Chars(s) == [i \in 1..Len(s) |-> SubSeq(s, i, i)]

\* The character U+0060 (grave accent), which a TLA+ string literal cannot hold.
Backtick == "BACKTICK"
Tilde == "~"

\* n repetitions of the character c
Rep(c, n) == [i \in 1..n |-> c]

\* char::is_whitespace, on the characters the model uses.
Whitespace == {" ", "\t", "\n", "\r", "\f"}
IsWhitespace(c) == c \in Whitespace

Min(S) == CHOOSE m \in S : \A n \in S : m <= n
Max(S) == CHOOSE m \in S : \A n \in S : m >= n

\* s.chars().take_while(|c| S.contains(c)).count()
TakeWhileCount(s, S) ==
    Min({i \in 1..Len(s) : s[i] \notin S} \cup {Len(s) + 1}) - 1

\* s[n..] / s.chars().skip(n)
Skip(s, n) == SubSeq(s, n + 1, Len(s))

\* str::trim_start
TrimStart(s) == Skip(s, TakeWhileCount(s, Whitespace))

\* str::trim_end
TrimEnd(s) ==
    SubSeq(s, 1, Max({i \in 1..Len(s) : ~IsWhitespace(s[i])} \cup {0}))

\* str::trim
Trim(s) == TrimEnd(TrimStart(s))

\* str::starts_with
StartsWith(s, p) == Len(s) >= Len(p) /\ SubSeq(s, 1, Len(p)) = p

\* str::ends_with
EndsWith(s, p) == Len(s) >= Len(p) /\ SubSeq(s, Len(s) - Len(p) + 1, Len(s)) = p

\* str::strip_prefix / str::strip_suffix once the match is known
StripPrefix(s, p) == Skip(s, Len(p))
StripSuffix(s, p) == SubSeq(s, 1, Len(s) - Len(p))

\* str::lines: split after every "\n"; each piece loses its "\n" and then one
\* "\r" before it.  A last piece without "\n" is returned as it is.
RECURSIVE StrLines(_)
StrLines(s) ==
    IF s = <<>> THEN <<>>
    ELSE LET nl == Min({i \in 1..Len(s) : s[i] = "\n"} \cup {Len(s) + 1})
         IN  IF nl > Len(s) THEN <<s>>
             ELSE LET piece == SubSeq(s, 1, nl - 1)
                      line  == IF EndsWith(piece, <<"\r">>)
                               THEN StripSuffix(piece, <<"\r">>) ELSE piece
                  IN  <<line>> \o StrLines(Skip(s, nl))

\* [String]::join(sep)
RECURSIVE Join(_, _)
Join(ls, sep) ==
    IF ls = <<>> THEN <<>>
    ELSE IF Len(ls) = 1 THEN ls[1]
    ELSE ls[1] \o sep \o Join(Tail(ls), sep)

NL == <<"\n">>

(***************************************************************************)
(* normalize (parser.rs 66-95)                                             *)
(***************************************************************************)
\* min_indent taken over all lines, the whitespace-only ones too
MinIndent_CountsBlankLines(ls) ==
    IF ls = <<>> THEN 0
    ELSE Min({TakeWhileCount(ls[i], Whitespace) : i \in 1..Len(ls)})

\* lines 72-77: minimum leading-whitespace count over the non-blank lines
MinIndent(ls) ==
    LET nonblank == {i \in 1..Len(ls) : Trim(ls[i]) # <<>>}
    IN  IF nonblank = {} THEN 0
        ELSE Min({TakeWhileCount(ls[i], Whitespace) : i \in nonblank})

\* lines 81-90: strip min_indent characters; whitespace-only lines become empty
Dedent(ls) ==
    LET min_indent == MinIndent(ls)
    IN  [i \in 1..Len(ls) |->
            IF Trim(ls[i]) = <<>> THEN <<>> ELSE Skip(ls[i], min_indent)]

normalize(text) == Trim(Join(Dedent(StrLines(text)), NL))

(***************************************************************************)
(* Fence tracker (parser.rs 102-145)                                       *)
(***************************************************************************)
\* Option<T>: None is <<>>, Some(v) is <<v>>
None == <<>>
Some(v) == <<v>>

\* parse_fence_open reporting the three characters it tested, not the whole run
parse_fence_open_LengthThree(trimmed) ==
    IF ~StartsWith(trimmed, Rep(Backtick, 3)) /\ ~StartsWith(trimmed, Rep(Tilde, 3))
    THEN [open |-> FALSE]
    ELSE LET fc    == IF StartsWith(trimmed, Rep(Backtick, 3)) THEN Backtick ELSE Tilde
             fl    == TakeWhileCount(trimmed, {fc})
             after == Trim(Skip(trimmed, fl))
             lang  == SubSeq(after, 1,
                             Min({i \in 1..Len(after) : IsWhitespace(after[i])}
                                     \cup {Len(after) + 1}) - 1)
         IN  [open |-> TRUE, char |-> fc, len |-> 3,
              language |-> IF after = <<>> \/ lang = <<>> THEN None ELSE Some(lang)]

\* parse_fence_open: [open |-> FALSE] is None, otherwise Some((char, len, language))
parse_fence_open(trimmed) ==
    IF ~StartsWith(trimmed, Rep(Backtick, 3)) /\ ~StartsWith(trimmed, Rep(Tilde, 3))
    THEN [open |-> FALSE]
    ELSE LET fc    == IF StartsWith(trimmed, Rep(Backtick, 3)) THEN Backtick ELSE Tilde
             fl    == TakeWhileCount(trimmed, {fc})
             after == Trim(Skip(trimmed, fl))
             \* after.split_whitespace().next()
             lang  == SubSeq(after, 1,
                             Min({i \in 1..Len(after) : IsWhitespace(after[i])}
                                     \cup {Len(after) + 1}) - 1)
         IN  [open |-> TRUE, char |-> fc, len |-> fl,
              language |-> IF after = <<>> \/ lang = <<>> THEN None ELSE Some(lang)]

\* is_closing_fence asking for a run longer than the opening one
is_closing_fence_LongerRun(trimmed, fc, fl) ==
    LET count == TakeWhileCount(trimmed, {fc})
    IN  IF count <= fl THEN FALSE
        ELSE \A i \in (count + 1)..Len(trimmed) : trimmed[i] = " "

\* is_closing_fence letting any whitespace follow the run
is_closing_fence_AnyWhitespace(trimmed, fc, fl) ==
    LET count == TakeWhileCount(trimmed, {fc})
    IN  IF count < fl THEN FALSE
        ELSE \A i \in (count + 1)..Len(trimmed) : IsWhitespace(trimmed[i])

\* is_closing_fence
is_closing_fence(trimmed, fc, fl) ==
    LET count == TakeWhileCount(trimmed, {fc})
    IN  IF count < fl THEN FALSE
        ELSE \A i \in (count + 1)..Len(trimmed) : trimmed[i] = " "

(***************************************************************************)
(* Section classifier (section.rs 89-106)                                  *)
(***************************************************************************)
UpperCase == Chars("ABCDEFGHIJKLMNOPQRSTUVWXYZ")
LowerCase == Chars("abcdefghijklmnopqrstuvwxyz")

\* char::to_lowercase on ASCII
ToLowerChar(c) ==
    IF \E k \in 1..26 : UpperCase[k] = c
    THEN LowerCase[CHOOSE k \in 1..26 : UpperCase[k] = c]
    ELSE c

\* str::to_lowercase
to_lowercase(s) == [i \in 1..Len(s) |-> ToLowerChar(s[i])]

\* from_heading matching the heading as written, its case kept
from_heading_CaseSensitive(heading) ==
    LET h == heading
    IN  CASE h = Chars("type")        -> [tag |-> "Type"]
          [] h = Chars("arguments")   -> [tag |-> "Arguments"]
          [] h = Chars("args")        -> [tag |-> "Arguments"]
          [] h = Chars("example")     -> [tag |-> "Example"]
          [] h = Chars("examples")    -> [tag |-> "Examples"]
          [] h = Chars("note")        -> [tag |-> "Note"]
          [] h = Chars("notes")       -> [tag |-> "Notes"]
          [] h = Chars("warning")     -> [tag |-> "Warning"]
          [] h = Chars("warnings")    -> [tag |-> "Warning"]
          [] h = Chars("caution")     -> [tag |-> "Warning"]
          [] h = Chars("deprecated")  -> [tag |-> "Deprecated"]
          [] OTHER                    -> [tag |-> "Unknown", text |-> h]

\* SectionKind::from_heading
from_heading(heading) ==
    LET h == to_lowercase(heading)
    IN  CASE h = Chars("type")        -> [tag |-> "Type"]
          [] h = Chars("arguments")   -> [tag |-> "Arguments"]
          [] h = Chars("args")        -> [tag |-> "Arguments"]
          [] h = Chars("example")     -> [tag |-> "Example"]
          [] h = Chars("examples")    -> [tag |-> "Examples"]
          [] h = Chars("note")        -> [tag |-> "Note"]
          [] h = Chars("notes")       -> [tag |-> "Notes"]
          [] h = Chars("warning")     -> [tag |-> "Warning"]
          [] h = Chars("warnings")    -> [tag |-> "Warning"]
          [] h = Chars("caution")     -> [tag |-> "Warning"]
          [] h = Chars("deprecated")  -> [tag |-> "Deprecated"]
          [] OTHER                    -> [tag |-> "Unknown", text |-> h]

\* SectionKind::is_known
is_known(kind) == kind.tag # "Unknown"

\* Section::kind
kind(section) == from_heading(section.heading)

(***************************************************************************)
(* Section segmenter (parser.rs 154-243)                                   *)
(***************************************************************************)
\* format!("section '{}' has no content", heading)
EmptySectionMessage(heading) ==
    Chars("section '") \o heading \o Chars("' has no content")

\* the message built from the classified (lowercased) heading
UnknownSectionMessage_Lowercased(heading) ==
    Chars("unrecognized section heading: '") \o to_lowercase(heading) \o Chars("'")

\* format!("unrecognized section heading: '{}'", section.heading)
UnknownSectionMessage(heading) ==
    Chars("unrecognized section heading: '") \o heading \o Chars("'")

\* flush_section warning only when no line at all was collected
flush_section_WarnsOnNoLines(heading, ls, secs, warns) ==
    LET body == Trim(Join(ls, NL))
    IN  [sections |-> Append(secs, [heading |-> heading, content |-> body]),
         warnings |-> IF ls = <<>>
                      THEN Append(warns, [kind |-> "EmptySection",
                                          message |-> EmptySectionMessage(heading)])
                      ELSE warns]

\* flush_section: the vectors after the call
flush_section(heading, ls, secs, warns) ==
    LET body == Trim(Join(ls, NL))
    IN  [sections |-> Append(secs, [heading |-> heading, content |-> body]),
         warnings |-> IF body = <<>>
                      THEN Append(warns, [kind |-> "EmptySection",
                                          message |-> EmptySectionMessage(heading)])
                      ELSE warns]

\* the fence state closing a block at any run of three, whatever its length
FenceUpdate_RunOfThreeCloses(line, icb, fc, fl) ==
    LET trimmed == TrimStart(line)
        open    == parse_fence_open(trimmed)
    IN  IF ~icb
        THEN IF open.open
             THEN [in_code_block |-> TRUE, fence_char |-> open.char, fence_len |-> open.len]
             ELSE [in_code_block |-> icb, fence_char |-> fc, fence_len |-> fl]
        ELSE IF is_closing_fence(trimmed, fc, 3)
             THEN [in_code_block |-> FALSE, fence_char |-> fc, fence_len |-> fl]
             ELSE [in_code_block |-> icb, fence_char |-> fc, fence_len |-> fl]

\* lines 177-185: in_code_block, fence_char, fence_len after looking at a line
FenceUpdate(line, icb, fc, fl) ==
    LET trimmed == TrimStart(line)
        open    == parse_fence_open(trimmed)
    IN  IF ~icb
        THEN IF open.open
             THEN [in_code_block |-> TRUE, fence_char |-> open.char, fence_len |-> open.len]
             ELSE [in_code_block |-> icb, fence_char |-> fc, fence_len |-> fl]
        ELSE IF is_closing_fence(trimmed, fc, fl)
             THEN [in_code_block |-> FALSE, fence_char |-> fc, fence_len |-> fl]
             ELSE [in_code_block |-> icb, fence_char |-> fc, fence_len |-> fl]

\* is_heading_candidate without the fence test
IsHeadingCandidate_IgnoresFence(icb, line) == StartsWith(line, Chars("# "))

\* line 188: is_heading_candidate, with the fence state already updated
IsHeadingCandidate(icb, line) == ~icb /\ StartsWith(line, Chars("# "))

\* the heading text taken without trimming it
HeadingText_NoTrim(line) == Skip(line, 2)

\* line 191: the heading text of a candidate line
HeadingText(line) == Trim(Skip(line, 2))

(***************************************************************************)
(* Inputs.  An input is a pair of delimiters around body lines joined by   *)
(* line breaks; the body lines come from a vocabulary of headings, fences, *)
(* prose and blank lines at several indentations.                          *)
(***************************************************************************)
BodyVocabulary ==
    { Chars("# Note"),                  \* a recognized heading
      Chars("#  Xy"),                   \* an unrecognized heading, padded
      Chars("#  "),                     \* a heading prefix with only whitespace after it
      Chars("  # Note"),                \* an indented heading
      Rep(Backtick, 3),
      Rep(Backtick, 4),
      Rep(Tilde, 3),
      Chars(" x"),                      \* prose, indented by one
      Chars(" "),                       \* a whitespace-only line
      Chars("x\r\r") }                  \* prose ending in carriage returns

\* the delimiters of a doc comment, put right around the body
DocWrapper == << Chars("/**"), Chars("*/") >>

\* other texts around the body: delimiters on lines of their own with whitespace
\* around them, and delimiters that are missing, incomplete or overlapping
EdgeWrappers ==
    { << Chars(" /**\n"), Chars("\n*/\n") >>,
      << Chars("/*"), Chars("*/") >>,
      << Chars("x"), <<>> >>,
      << Chars("/**"), <<>> >>,
      << Chars("\n/**"), Chars("*") >>,
      << Chars("/**"), Chars("/") >> }

Bodies(n) == UNION { [1..k -> BodyVocabulary] : k \in 0..n }

Inputs ==
    { DocWrapper[1] \o Join(b, NL) \o DocWrapper[2] : b \in Bodies(MaxLines) }
    \cup
    { w[1] \o Join(b, NL) \o w[2] : w \in EdgeWrappers, b \in Bodies(MaxWrapLines) }

(***************************************************************************)
(* The state machine of parse (parser.rs 8-44, 154-224)                    *)
(***************************************************************************)
\* no accessor or sub-parser has been called
NoCall == [op |-> "none"]

\* parse was entered from Rust, not through the C boundary
NoFfi == [active |-> FALSE]

\* The locals of parse_sections as declared at lines 155-171.
InitWith(in) ==
    /\ input = in
    /\ pc = "start"
    /\ result = "none"
    /\ content = <<>>
    /\ lines = <<>>
    /\ idx = 0
    /\ in_description = TRUE
    /\ in_code_block = FALSE
    /\ fence_char = Backtick
    /\ fence_len = 3
    /\ current_heading = None
    /\ description_lines = <<>>
    /\ section_lines = <<>>
    /\ sections = <<>>
    /\ warnings = <<>>
    /\ description = <<>>
    /\ call = NoCall
    /\ ffi = NoFfi

Init == \E in \in Inputs : InitWith(in)

\* DelimiterError with the suffix looked for before the prefix
DelimiterError_SuffixFirst(in) ==
    LET trimmed == Trim(in)
    IN  IF ~EndsWith(trimmed, Chars("*/")) THEN "UnclosedComment"
        ELSE IF ~StartsWith(trimmed, Chars("/**")) THEN "NotDocComment"
             ELSE "none"

\* DelimiterError accepting a lone "/" as the closing delimiter
DelimiterError_SlashCloses(in) ==
    LET trimmed == Trim(in)
    IN  IF ~StartsWith(trimmed, Chars("/**")) THEN "NotDocComment"
        ELSE IF ~EndsWith(StripPrefix(trimmed, Chars("/**")), Chars("/"))
             THEN "UnclosedComment"
             ELSE "none"

\* parse, lines 9-16: which delimiter error the trimmed input gives, if any
DelimiterError(in) ==
    LET trimmed == Trim(in)
    IN  IF ~StartsWith(trimmed, Chars("/**")) THEN "NotDocComment"
        ELSE IF ~EndsWith(StripPrefix(trimmed, Chars("/**")), Chars("*/"))
             THEN "UnclosedComment"
             ELSE "none"

\* parse, lines 12-16: the text between the delimiters
Inner(in) == StripSuffix(StripPrefix(Trim(in), Chars("/**")), Chars("*/"))

\* IsEmptyComment taking a comment without description text for an empty one
IsEmptyComment_NoDescription(c) == Trim(c) = <<>> \/ StartsWith(c, Chars("# "))

\* parse, line 21
IsEmptyComment(c) == Trim(c) = <<>>

\* parse, lines 9-26: delimiters, normalize, the empty check, entry to parse_sections
ParseStart ==
    /\ pc = "start"
    /\ IF DelimiterError(input) # "none"
       THEN /\ result' = DelimiterError(input)
            /\ pc' = "done"
            /\ UNCHANGED << content, lines >>
       ELSE /\ content' = normalize(Inner(input))
            /\ IF IsEmptyComment(content')
               THEN /\ result' = "EmptyComment"
                    /\ pc' = "done"
                    /\ UNCHANGED lines
               ELSE /\ result' = "none"
                    /\ pc' = "sections"
                    /\ lines' = StrLines(content')
    /\ UNCHANGED << input, idx, in_description, in_code_block, fence_char, fence_len,
                    current_heading, description_lines, section_lines, sections,
                    warnings, description, call, ffi >>

\* one iteration of the loop that drops a "# " line whose heading text is empty
SectionsLine_DropsBlankHeading ==
    /\ pc = "sections"
    /\ idx < Len(lines)
    /\ LET line    == lines[idx + 1]
           fence   == FenceUpdate(line, in_code_block, fence_char, fence_len)
           heading == HeadingText(line)
       IN  /\ in_code_block' = fence.in_code_block
           /\ fence_char' = fence.fence_char
           /\ fence_len' = fence.fence_len
           /\ IF IsHeadingCandidate(fence.in_code_block, line)
              THEN IF heading # <<>>
                   THEN /\ IF in_description
                           THEN /\ in_description' = FALSE
                                /\ UNCHANGED << sections, warnings, section_lines >>
                           ELSE IF current_heading # None
                                THEN LET f == flush_section(current_heading[1],
                                                            section_lines, sections, warnings)
                                     IN  /\ sections' = f.sections
                                         /\ warnings' = f.warnings
                                         /\ section_lines' = <<>>
                                         /\ UNCHANGED in_description
                                ELSE UNCHANGED << in_description, sections, warnings,
                                                  section_lines >>
                        /\ current_heading' = Some(heading)
                        /\ UNCHANGED description_lines
                   ELSE UNCHANGED << in_description, current_heading, sections, warnings,
                                     description_lines, section_lines >>
              ELSE /\ IF in_description
                      THEN /\ description_lines' = Append(description_lines, line)
                           /\ UNCHANGED section_lines
                      ELSE /\ section_lines' = Append(section_lines, line)
                           /\ UNCHANGED description_lines
                   /\ UNCHANGED << in_description, current_heading, sections, warnings >>
    /\ idx' = idx + 1
    /\ UNCHANGED << input, pc, result, content, lines, description, call, ffi >>

\* parse_sections, lines 173-212: one iteration of the loop
SectionsLine ==
    /\ pc = "sections"
    /\ idx < Len(lines)
    /\ LET line    == lines[idx + 1]
           fence   == FenceUpdate(line, in_code_block, fence_char, fence_len)
           heading == HeadingText(line)
       IN  /\ in_code_block' = fence.in_code_block
           /\ fence_char' = fence.fence_char
           /\ fence_len' = fence.fence_len
           /\ IF IsHeadingCandidate(fence.in_code_block, line) /\ heading # <<>>
              THEN /\ IF in_description
                      THEN /\ in_description' = FALSE
                           /\ UNCHANGED << sections, warnings, section_lines >>
                      ELSE IF current_heading # None
                           THEN LET f == flush_section(current_heading[1], section_lines,
                                                       sections, warnings)
                                IN  /\ sections' = f.sections
                                    /\ warnings' = f.warnings
                                    /\ section_lines' = <<>>
                                    /\ UNCHANGED in_description
                           ELSE UNCHANGED << in_description, sections, warnings,
                                             section_lines >>
                   /\ current_heading' = Some(heading)
                   /\ UNCHANGED description_lines
              ELSE /\ IF in_description
                      THEN /\ description_lines' = Append(description_lines, line)
                           /\ UNCHANGED section_lines
                      ELSE /\ section_lines' = Append(section_lines, line)
                           /\ UNCHANGED description_lines
                   /\ UNCHANGED << in_description, current_heading, sections, warnings >>
    /\ idx' = idx + 1
    /\ UNCHANGED << input, pc, result, content, lines, description, call, ffi >>

\* parse_sections, lines 214-223: the flush at end of input and the description
SectionsEnd ==
    /\ pc = "sections"
    /\ idx = Len(lines)
    /\ IF current_heading # None
       THEN LET f == flush_section(current_heading[1], section_lines, sections, warnings)
            IN  /\ sections' = f.sections
                /\ warnings' = f.warnings
                /\ description' = Trim(Join(description_lines, NL))
                /\ UNCHANGED description_lines
       ELSE /\ description_lines' = description_lines \o section_lines
            /\ description' = Trim(Join(description_lines', NL))
            /\ UNCHANGED << sections, warnings >>
    /\ pc' = "flushed"
    /\ UNCHANGED << input, result, content, lines, idx, in_description, in_code_block,
                    fence_char, fence_len, current_heading, section_lines, call, ffi >>

\* parse, lines 29-36: the warnings pushed by the loop over the sections
RECURSIVE UnknownSectionWarnings(_)
UnknownSectionWarnings(secs) ==
    IF secs = <<>> THEN <<>>
    ELSE (IF ~is_known(kind(Head(secs)))
          THEN << [kind |-> "UnknownSection",
                   message |-> UnknownSectionMessage(Head(secs).heading)] >>
          ELSE <<>>)
         \o UnknownSectionWarnings(Tail(secs))

\* parse, lines 28-43: classify the sections, build the DocComment
ClassifyWarnings ==
    /\ pc = "flushed"
    /\ warnings' = warnings \o UnknownSectionWarnings(sections)
    /\ result' = "Ok"
    /\ pc' = "done"
    /\ UNCHANGED << input, content, lines, idx, in_description, in_code_block,
                    fence_char, fence_len, current_heading, description_lines,
                    section_lines, sections, description, call, ffi >>

Next == ParseStart \/ SectionsLine \/ SectionsEnd \/ ClassifyWarnings

Spec == Init /\ [][Next]_vars

(***************************************************************************)
(* Properties of parse's error handling                                    *)
(***************************************************************************)
\* The input, whitespace before it skipped, starts with the characters / * *
HasDocPrefix(in) ==
    \E k \in 1..Len(in) :
        /\ \A i \in 1..(k - 1) : IsWhitespace(in[i])
        /\ k + 2 <= Len(in)
        /\ in[k] = "/" /\ in[k + 1] = "*" /\ in[k + 2] = "*"

\* The input, whitespace after it skipped, ends with the characters * /
HasCloseSuffix(in) ==
    \E k \in 1..Len(in) :
        /\ \A i \in (k + 2)..Len(in) : IsWhitespace(in[i])
        /\ k + 1 <= Len(in)
        /\ in[k] = "*" /\ in[k + 1] = "/"

AllWhitespace(s) == \A i \in 1..Len(s) : IsWhitespace(s[i])

Contains(s, sub) ==
    \E i \in 0..(Len(s) - Len(sub)) : SubSeq(s, i + 1, i + Len(sub)) = sub

\* C1: an input whose trimmed text does not start with "/**" fails with
\* NotDocComment, whether or not it ends with "*/".
C1_NotDocComment ==
    (pc # "start" /\ ~HasDocPrefix(input))
        => (pc = "done" /\ result = "NotDocComment")

\* parse has rejected an input that has no "/**" prefix but does end with "*/"
C1_Witness ==
    /\ pc = "done"
    /\ result = "NotDocComment"
    /\ ~HasDocPrefix(input)
    /\ HasCloseSuffix(input)

\* C2: an input whose trimmed text starts with "/**" and does not end with "*/"
\* fails with UnclosedComment, whatever lies between.
C2_UnclosedComment ==
    (pc # "start" /\ HasDocPrefix(input) /\ ~HasCloseSuffix(input))
        => (pc = "done" /\ result = "UnclosedComment")

\* parse has rejected an unclosed input whose body is a well-formed section heading
C2_Witness ==
    /\ pc = "done"
    /\ result = "UnclosedComment"
    /\ HasDocPrefix(input)
    /\ ~HasCloseSuffix(input)
    /\ Contains(input, Chars("# Note"))

C3_WitnessEmpty ==
    /\ pc = "done"
    /\ result = "EmptyComment"
    /\ Len(Inner(input)) > 2

(***************************************************************************)
(* Properties of the section segmenter                                     *)
(***************************************************************************)
\* The line, leading whitespace skipped, starts with three equal marker characters.
OpensFence(line) ==
    LET t == TrimStart(line)
    IN  /\ Len(t) >= 3
        /\ t[1] \in {Backtick, Tilde}
        /\ t[2] = t[1] /\ t[3] = t[1]

\* The length of the run of the first character of the line (leading whitespace skipped).
RunLength(line) ==
    LET t == TrimStart(line)
    IN  Max({k \in 1..Len(t) : \A i \in 1..k : t[i] = t[1]})

\* The line, leading whitespace skipped, is a run of at least n characters c
\* followed by spaces only.
ClosesFence(line, c, n) ==
    LET t == TrimStart(line)
    IN  \E k \in n..Len(t) :
            /\ \A i \in 1..k : t[i] = c
            /\ \A i \in (k + 1)..Len(t) : t[i] = " "

\* The fence that is open after the first k lines of ls, by the fencing rule.
RECURSIVE FenceAfter(_, _)
FenceAfter(ls, k) ==
    IF k = 0 THEN [open |-> FALSE, char |-> Backtick, len |-> 3]
    ELSE LET prev == FenceAfter(ls, k - 1)
         IN  CASE ~prev.open /\ OpensFence(ls[k]) ->
                    [open |-> TRUE, char |-> TrimStart(ls[k])[1], len |-> RunLength(ls[k])]
               [] prev.open /\ ClosesFence(ls[k], prev.char, prev.len) ->
                    [prev EXCEPT !.open = FALSE]
               [] OTHER -> prev

\* The line starts with "# " at column 0 and has non-blank text after it.
LooksLikeHeading(line) ==
    /\ Len(line) >= 3
    /\ line[1] = "#" /\ line[2] = " "
    /\ \E i \in 3..Len(line) : ~IsWhitespace(line[i])

\* The line starts with "# " at column 0 and has only whitespace after it.
BlankHeading(line) ==
    /\ Len(line) >= 2
    /\ line[1] = "#" /\ line[2] = " "
    /\ \A i \in 3..Len(line) : IsWhitespace(line[i])

\* The text of a heading line after "# ", without the whitespace around it.
TrimmedHeading(line) ==
    LET solid == {i \in 3..Len(line) : ~IsWhitespace(line[i])}
    IN  SubSeq(line, Min(solid), Max(solid))

\* The headings of the lines of ls that are recognized as headings, in order.
ExpectedHeadings(ls) ==
    LET at == SelectSeq([k \in 1..Len(ls) |-> k],
                        LAMBDA k : LooksLikeHeading(ls[k]) /\ ~FenceAfter(ls, k).open)
    IN  [j \in 1..Len(at) |-> TrimmedHeading(ls[at[j]])]

\* The headings the segmenter has recognized so far, flushed or not.
HeadingsSoFar ==
    [i \in 1..Len(sections) |-> sections[i].heading]
        \o (IF current_heading # None THEN <<current_heading[1]>> ELSE <<>>)

\* The buffer lines are accumulated into.
ActiveBuffer == IF in_description THEN description_lines ELSE section_lines

\* The step keeps the line as content of the active buffer and recognizes no heading.
KeptAsContent(line) ==
    /\ in_description' = in_description
    /\ current_heading' = current_heading
    /\ sections' = sections
    /\ IF in_description
       THEN description_lines' = Append(description_lines, line)
            /\ section_lines' = section_lines
       ELSE section_lines' = Append(section_lines, line)
            /\ description_lines' = description_lines

\* C4: from the line that opens a fence up to the line that closes it for the
\* recorded character and length, no line is recognized as a heading; a line in
\* between that does not close the fence leaves the recorded fence as it is.
C4_FenceContainment ==
    [][ (pc = "sections" /\ idx < Len(lines) /\ idx' = idx + 1)
          => LET line == lines[idx + 1]
             IN  /\ (in_code_block /\ ~ClosesFence(line, fence_char, fence_len))
                       => /\ in_code_block'
                          /\ fence_char' = fence_char
                          /\ fence_len' = fence_len
                          /\ KeptAsContent(line)
                 /\ (in_code_block /\ ClosesFence(line, fence_char, fence_len))
                       => (~in_code_block' /\ KeptAsContent(line))
                 /\ (~in_code_block /\ in_code_block')
                       => (OpensFence(line) /\ KeptAsContent(line)) ]_vars

\* inside a fence of four backticks the segmenter has passed a run of three
\* backticks and a "# Note" line, and the fence is still open with no heading seen
C4_Witness ==
    /\ pc = "sections"
    /\ idx = 3
    /\ lines[1] = Rep(Backtick, 4)
    /\ lines[2] = Rep(Backtick, 3)
    /\ lines[3] = Chars("# Note")
    /\ in_code_block /\ fence_char = Backtick /\ fence_len = 4
    /\ current_heading = None
    /\ description_lines = lines

\* C5: the sections correspond one to one, in order, to the lines that start
\* with "# " at column 0, have non-blank text after it and lie outside any open
\* fence; each heading is that text trimmed; a "# " line with only whitespace
\* after it makes no section and is kept in the active buffer.
C5_SectionsAreHeadings ==
    /\ pc = "sections"
         => /\ HeadingsSoFar = ExpectedHeadings(SubSeq(lines, 1, idx))
            /\ (idx > 0 /\ BlankHeading(lines[idx]))
                 => (ActiveBuffer # <<>>
                     /\ ActiveBuffer[Len(ActiveBuffer)] = lines[idx])
    /\ pc \in {"flushed", "done"}
         => [i \in 1..Len(sections) |-> sections[i].heading]
              = ExpectedHeadings(StrLines(content))

\* a Document with the sections Note and Xy, in that order, parsed from a content
\* that has a blank "# " line between the two headings
C5_Witness ==
    /\ pc = "done"
    /\ result = "Ok"
    /\ Len(sections) = 2
    /\ sections[1].heading = Chars("Note")
    /\ sections[2].heading = Chars("Xy")
    /\ \E k \in 1..Len(lines) : BlankHeading(lines[k])

\* C6 as claimed: no line of the description starts with "# " followed by
\* non-blank text.
C6_NoHeadingLookingLine ==
    (pc = "done" /\ result = "Ok")
        => \A k \in 1..Len(StrLines(description)) :
              ~LooksLikeHeading(StrLines(description)[k])

\* C6: the description is the trimmed join of the content lines before the first
\* recognized heading, and none of these lines that lies outside an open fence
\* starts with "# " followed by non-blank text.
C6_NoHeadingOutsideFence ==
    (pc = "done" /\ result = "Ok")
        => /\ description = Trim(Join(description_lines, NL))
           /\ description_lines = SubSeq(lines, 1, Len(description_lines))
           /\ \A k \in 1..Len(description_lines) :
                 LooksLikeHeading(description_lines[k])
                    => FenceAfter(description_lines, k).open

\* a Document whose description keeps a "# " line inside a fenced block
C6_Witness ==
    /\ pc = "done"
    /\ result = "Ok"
    /\ \E k \in 1..Len(description_lines) :
          /\ LooksLikeHeading(description_lines[k])
          /\ FenceAfter(description_lines, k).open
    /\ Contains(description, Chars("# Note"))

\* C7: there are as many EmptySection warnings as sections with an empty
\* trimmed body, the i-th warning being about the i-th such section; the last
\* section, flushed at end of input, is counted too.
C7_EmptySectionWarnings ==
    pc \in {"flushed", "done"}
        => LET ew == SelectSeq(warnings, LAMBDA w : w.kind = "EmptySection")
               es == SelectSeq(sections, LAMBDA x : AllWhitespace(x.content))
           IN  /\ Len(ew) = Len(es)
               /\ \A i \in 1..Len(ew) : Contains(ew[i].message, es[i].heading)

\* a Document whose first section has a body, whose last section has none, and
\* which carries the one EmptySection warning for it
C7_Witness ==
    /\ pc = "done"
    /\ result = "Ok"
    /\ Len(sections) = 2
    /\ sections[1].content # <<>>
    /\ sections[2].content = <<>>
    /\ Cardinality({i \in 1..Len(warnings) : warnings[i].kind = "EmptySection"}) = 1

\* The headings of the classifier's table, lowercased.
KnownHeadings ==
    { Chars("type"), Chars("arguments"), Chars("args"), Chars("example"),
      Chars("examples"), Chars("note"), Chars("notes"), Chars("warning"),
      Chars("warnings"), Chars("caution"), Chars("deprecated") }

\* C8: there are as many UnknownSection warnings as sections whose heading is
\* outside the classifier's table, and the message of the i-th warning contains
\* the heading of the i-th such section as written.
C8_UnknownSectionWarnings ==
    (pc = "done" /\ result = "Ok")
        => LET uw == SelectSeq(warnings, LAMBDA w : w.kind = "UnknownSection")
               us == SelectSeq(sections,
                               LAMBDA x : to_lowercase(x.heading) \notin KnownHeadings)
           IN  /\ Len(uw) = Len(us)
               /\ \A i \in 1..Len(uw) : Contains(uw[i].message, us[i].heading)

\* a Document with a recognized section Note and an unrecognized section Xy,
\* carrying one UnknownSection warning
C8_Witness ==
    /\ pc = "done"
    /\ result = "Ok"
    /\ \E i \in 1..Len(sections) : sections[i].heading = Chars("Note")
    /\ \E i \in 1..Len(sections) : sections[i].heading = Chars("Xy")
    /\ Cardinality({i \in 1..Len(warnings) : warnings[i].kind = "UnknownSection"}) = 1

(***************************************************************************)
(* Properties of normalize                                                 *)
(***************************************************************************)
\* The number of whitespace characters the line starts with.
LeadingWhitespace(l) == Max({k \in 0..Len(l) : \A i \in 1..k : IsWhitespace(l[i])})

\* The lines of ls that are not entirely whitespace.
NonBlank(ls) == {i \in 1..Len(ls) : ~AllWhitespace(ls[i])}

\* The common indent: the least leading-whitespace count of a non-blank line.
CommonIndent(ls) ==
    IF NonBlank(ls) = {} THEN 0
    ELSE CHOOSE m \in 0..Max({Len(ls[i]) : i \in 1..Len(ls)}) :
            /\ \A i \in NonBlank(ls) : LeadingWhitespace(ls[i]) >= m
            /\ \E i \in NonBlank(ls) : LeadingWhitespace(ls[i]) = m

\* Every line without its first CommonIndent characters; whitespace-only lines empty.
CommonIndentRemoved(ls) ==
    [i \in 1..Len(ls) |->
        IF AllWhitespace(ls[i]) THEN <<>>
        ELSE SubSeq(ls[i], CommonIndent(ls) + 1, Len(ls[i]))]

\* The lines of ls from the first to the last non-blank one.
BetweenNonBlank(ls, of) ==
    IF NonBlank(of) = {} THEN <<>>
    ELSE SubSeq(ls, Min(NonBlank(of)), Max(NonBlank(of)))

\* The first line without its leading, the last without its trailing whitespace.
OuterTrimmed(ls) ==
    [i \in 1..Len(ls) |->
        LET a == IF i = 1 THEN TrimStart(ls[i]) ELSE ls[i]
        IN  IF i = Len(ls) THEN TrimEnd(a) ELSE a]

\* The text handed to normalize by parse.
Normalized == pc # "start" /\ result \notin {"NotDocComment", "UnclosedComment"}

\* C9 as claimed: every line of the result is the input line without exactly
\* common-indent leading characters (whitespace-only lines empty), the result
\* running from the first to the last non-blank line.
C9_ExactlyCommonIndent ==
    Normalized
        => LET ls == StrLines(Inner(input))
           IN  content = Join(BetweenNonBlank(CommonIndentRemoved(ls), ls), NL)

\* C9: the result is the input lines from the first to the last non-blank one,
\* each without exactly common-indent leading characters and whitespace-only
\* lines empty, except that the first of them also loses the leading whitespace
\* it has left and the last of them its trailing whitespace.
C9_CommonIndentThenOuterTrim ==
    Normalized
        => LET ls == StrLines(Inner(input))
           IN  content
                 = Join(OuterTrimmed(BetweenNonBlank(CommonIndentRemoved(ls), ls)), NL)

\* normalize has removed a common indent of one, emptied a whitespace-only line
\* and kept the relative indent of a deeper line
C9_Witness ==
    /\ Normalized
    /\ CommonIndent(StrLines(Inner(input))) = 1
    /\ \E i \in 1..Len(StrLines(Inner(input))) : StrLines(Inner(input))[i] = Chars(" ")
    /\ content = Chars("x\n\n # Note")

\* C10: normalizing the normalized text returns it unchanged.
C10_Idempotent == Normalized => normalize(content) = content

(***************************************************************************)
(* Arguments parser (parser.rs 262-309)                                    *)
(***************************************************************************)
\* str::find(char): the position of the first c in s, 0 for None
Find(s, c) == Min({i \in 1..Len(s) : s[i] = c} \cup {Len(s) + 1}) % (Len(s) + 1)

\* Argument { name, description } (section.rs 114-119)
Argument(name, desc) == [name |-> name, description |-> desc]

\* lines 263-265: the locals before the loop
ArgumentsLocals == [arguments |-> <<>>, current_name |-> None, current_desc |-> <<>>]

\* lines 271-279 and 303-308: current_name.take() and the push of the argument
FlushArgument(st) ==
    IF st.current_name # None
    THEN [arguments |-> Append(st.arguments,
                               Argument(st.current_name[1], Trim(st.current_desc))),
          current_name |-> None,
          current_desc |-> <<>>]
    ELSE st

\* the name taken as written between the brackets
ArgumentName_NoTrim(rest, bracket_end) == SubSeq(rest, 1, bracket_end - 1)

\* line 282: rest[..bracket_end].trim()
ArgumentName(rest, bracket_end) == Trim(SubSeq(rest, 1, bracket_end - 1))

\* lines 267-301: one iteration of the loop over content.lines()
ArgumentsLine(st, line) ==
    LET trimmed == Trim(line)
    IN  IF StartsWith(trimmed, Chars("- ["))
        THEN LET rest        == StripPrefix(trimmed, Chars("- ["))
                 flushed     == FlushArgument(st)
                 bracket_end == Find(rest, "]")
             IN  IF bracket_end # 0 /\ ArgumentName(rest, bracket_end) # <<>>
                 THEN [flushed EXCEPT
                          !.current_name = Some(ArgumentName(rest, bracket_end)),
                          !.current_desc = Trim(Skip(rest, bracket_end))]
                 ELSE flushed
        ELSE IF /\ st.current_name # None
                /\ trimmed # <<>>
                /\ line # <<>>
                /\ IsWhitespace(line[1])
        THEN [st EXCEPT !.current_desc =
                            (IF @ # <<>> THEN @ \o <<" ">> ELSE @) \o trimmed]
        ELSE st

RECURSIVE ArgumentsLoop(_, _)
ArgumentsLoop(st, ls) ==
    IF ls = <<>> THEN st ELSE ArgumentsLoop(ArgumentsLine(st, Head(ls)), Tail(ls))

\* parse_arguments: the loop, then the flush of the pending argument
parse_arguments(text) ==
    FlushArgument(ArgumentsLoop(ArgumentsLocals, StrLines(text))).arguments

(***************************************************************************)
(* Examples parser and first-code-block extractor (parser.rs 316-394)      *)
(***************************************************************************)
\* Example { language, code } (section.rs 125-130)
Example(language, code) == [language |-> language, code |-> code]

\* lines 317-322: the locals before the loop
ExamplesLocals ==
    [examples |-> <<>>, in_block |-> FALSE, current_language |-> None,
     current_code |-> <<>>, block_fence_char |-> Backtick, block_fence_len |-> 3]

\* the loop body keeping the closing fence line in the code
ExamplesLine_KeepsClosingFence(st, line) ==
    LET trimmed == TrimStart(line)
        open    == parse_fence_open(trimmed)
    IN  IF ~st.in_block
        THEN IF open.open
             THEN [st EXCEPT !.in_block = TRUE,
                             !.block_fence_char = open.char,
                             !.block_fence_len = open.len,
                             !.current_language = open.language,
                             !.current_code = <<>>]
             ELSE st
        ELSE IF is_closing_fence(trimmed, st.block_fence_char, st.block_fence_len)
        THEN [st EXCEPT !.examples = Append(@, Example(st.current_language,
                                                       st.current_code \o line \o NL)),
                        !.current_language = None,
                        !.current_code = <<>>,
                        !.in_block = FALSE]
        ELSE [st EXCEPT !.current_code = @ \o line \o NL]

\* lines 324-347: one iteration of the loop over content.lines()
ExamplesLine(st, line) ==
    LET trimmed == TrimStart(line)
        open    == parse_fence_open(trimmed)
    IN  IF ~st.in_block
        THEN IF open.open
             THEN [st EXCEPT !.in_block = TRUE,
                             !.block_fence_char = open.char,
                             !.block_fence_len = open.len,
                             !.current_language = open.language,
                             !.current_code = <<>>]
             ELSE st
        ELSE IF is_closing_fence(trimmed, st.block_fence_char, st.block_fence_len)
        THEN [st EXCEPT !.examples = Append(@, Example(st.current_language,
                                                       st.current_code)),
                        !.current_language = None,
                        !.current_code = <<>>,
                        !.in_block = FALSE]
        ELSE [st EXCEPT !.current_code = @ \o line \o NL]

RECURSIVE ExamplesLoop(_, _)
ExamplesLoop(st, ls) ==
    IF ls = <<>> THEN st ELSE ExamplesLoop(ExamplesLine(st, Head(ls)), Tail(ls))

\* parse_examples without lines 350-355: a block left open is dropped
parse_examples_DropsUnclosed(text) ==
    ExamplesLoop(ExamplesLocals, StrLines(text)).examples

\* parse_examples: the loop, then lines 350-355, the unclosed block kept when it
\* has accumulated code
parse_examples(text) ==
    LET st == ExamplesLoop(ExamplesLocals, StrLines(text))
    IN  IF st.in_block /\ st.current_code # <<>>
        THEN Append(st.examples, Example(st.current_language, st.current_code))
        ELSE st.examples

\* lines 366-369: the locals before the loop; done is the early return of line 381
CodeBlockLocals ==
    [done |-> FALSE, in_block |-> FALSE, result |-> <<>>,
     block_fence_char |-> Backtick, block_fence_len |-> 3]

\* the loop body without the early return: lines after the closing fence are read
CodeBlockLine_ReadsOn(st, line) ==
    LET trimmed == TrimStart(line)
        open    == parse_fence_open(trimmed)
    IN  IF ~st.in_block
        THEN IF open.open
             THEN [st EXCEPT !.in_block = TRUE,
                             !.block_fence_char = open.char,
                             !.block_fence_len = open.len]
             ELSE st
        ELSE IF is_closing_fence(trimmed, st.block_fence_char, st.block_fence_len)
        THEN [st EXCEPT !.done = TRUE]
        ELSE [st EXCEPT !.result = @ \o line \o NL]

\* lines 371-386: one iteration of the loop over content.lines()
CodeBlockLine(st, line) ==
    LET trimmed == TrimStart(line)
        open    == parse_fence_open(trimmed)
    IN  IF st.done THEN st
        ELSE IF ~st.in_block
        THEN IF open.open
             THEN [st EXCEPT !.in_block = TRUE,
                             !.block_fence_char = open.char,
                             !.block_fence_len = open.len]
             ELSE st
        ELSE IF is_closing_fence(trimmed, st.block_fence_char, st.block_fence_len)
        THEN [st EXCEPT !.done = TRUE]
        ELSE [st EXCEPT !.result = @ \o line \o NL]

RECURSIVE CodeBlockLoop(_, _)
CodeBlockLoop(st, ls) ==
    IF ls = <<>> THEN st ELSE CodeBlockLoop(CodeBlockLine(st, Head(ls)), Tail(ls))

\* extract_first_code_block returning a block left open even when it is empty
extract_first_code_block_KeepsEmptyUnclosed(text) ==
    LET st == CodeBlockLoop(CodeBlockLocals, StrLines(text))
    IN  IF st.done THEN Some(st.result)
        ELSE IF st.in_block THEN Some(st.result)
        ELSE None

\* extract_first_code_block: Some(result) at the closing fence; at the end of the
\* text Some(result) only for an open block with accumulated code (lines 389-393)
extract_first_code_block(text) ==
    LET st == CodeBlockLoop(CodeBlockLocals, StrLines(text))
    IN  IF st.done THEN Some(st.result)
        ELSE IF st.in_block /\ st.result # <<>> THEN Some(st.result)
        ELSE None

(***************************************************************************)
(* Legacy inline type scanner (parser.rs 413-447)                          *)
(***************************************************************************)
\* str::find("::"): the position of the first "::" in s, 0 for None
FindSeparator(s) ==
    Min({i \in 1..(Len(s) - 1) : s[i] = ":" /\ s[i + 1] = ":"} \cup {Len(s) + 1})
        % (Len(s) + 1)

Digits == Chars("0123456789")

\* char::is_alphanumeric, on the characters the model uses
IsAlphanumeric(c) ==
    \/ \E k \in 1..26 : UpperCase[k] = c \/ LowerCase[k] = c
    \/ \E k \in 1..10 : Digits[k] = c

\* is_valid_ident letting spaces through
IsValidIdent_AllowsSpace(before) ==
    /\ before # <<>>
    /\ \A i \in 1..Len(before) :
          IsAlphanumeric(before[i]) \/ before[i] \in {"_", "-", "'", " "}

\* lines 438-440: is_valid_ident
IsValidIdent(before) ==
    /\ before # <<>>
    /\ \A i \in 1..Len(before) :
          IsAlphanumeric(before[i]) \/ before[i] \in {"_", "-", "'"}

\* parse_inline_type_line: Some(line) for "identifier :: type"
parse_inline_type_line(line) ==
    LET sep    == FindSeparator(line)
        before == Trim(SubSeq(line, 1, sep - 1))
        after  == Trim(Skip(line, sep + 1))
    IN  IF sep = 0 THEN None
        ELSE IF before = <<>> \/ after = <<>> THEN None
        ELSE IF IsValidIdent(before) THEN Some(line)
        ELSE None

\* extract_inline_type_sig: the first line, trimmed, that the pattern accepts
RECURSIVE InlineTypeScan(_)
InlineTypeScan(ls) ==
    IF ls = <<>> THEN None
    ELSE IF parse_inline_type_line(Trim(Head(ls))) # None
    THEN parse_inline_type_line(Trim(Head(ls)))
    ELSE InlineTypeScan(Tail(ls))

extract_inline_type_sig(text) == InlineTypeScan(StrLines(text))

(***************************************************************************)
(* Accessors of DocComment (lib.rs 136-295), on the parsed document held   *)
(* in description and sections                                             *)
(***************************************************************************)
\* Iterator::find taken from the back: the last section of that name
section_LastMatch(name) ==
    LET name_lower == to_lowercase(name)
        matches    == {i \in 1..Len(sections) :
                          to_lowercase(sections[i].heading) = name_lower}
    IN  IF matches = {} THEN None ELSE Some(sections[Max(matches)])

\* DocComment::section: Iterator::find over the sections
section(name) ==
    LET name_lower == to_lowercase(name)
        matches    == {i \in 1..Len(sections) :
                          to_lowercase(sections[i].heading) = name_lower}
    IN  IF matches = {} THEN None ELSE Some(sections[Min(matches)])

\* the first line of the description returned as it is
title_NoTrim ==
    LET ls == StrLines(Trim(description))
    IN  IF ls = <<>> THEN None
        ELSE IF Trim(ls[1]) = <<>> THEN None ELSE Some(ls[1])

\* DocComment::title
title ==
    LET ls == StrLines(Trim(description))
    IN  IF ls = <<>> THEN None
        ELSE IF Trim(ls[1]) = <<>> THEN None ELSE Some(Trim(ls[1]))

\* type_sig scanning the description when the Type section has no code block
type_sig_FallsBack ==
    IF section(Chars("Type")) # None
          /\ extract_first_code_block(section(Chars("Type"))[1].content) # None
    THEN extract_first_code_block(section(Chars("Type"))[1].content)
    ELSE extract_inline_type_sig(description)

\* DocComment::type_sig
type_sig ==
    IF section(Chars("Type")) # None
    THEN extract_first_code_block(section(Chars("Type"))[1].content)
    ELSE extract_inline_type_sig(description)

\* arguments taking whichever of the two names comes first in the document
arguments_FirstOfEither ==
    LET matches == {i \in 1..Len(sections) :
                       to_lowercase(sections[i].heading)
                           \in {Chars("arguments"), Chars("args")}}
    IN  IF matches = {} THEN <<>>
        ELSE parse_arguments(sections[Min(matches)].content)

\* DocComment::arguments
arguments ==
    LET s == IF section(Chars("Arguments")) # None
             THEN section(Chars("Arguments"))
             ELSE section(Chars("Args"))
    IN  IF s = None THEN <<>> ELSE parse_arguments(s[1].content)

\* filter(|s| names.contains(s.heading.to_lowercase())) over a vector of sections
RECURSIVE FilterSections(_, _)
FilterSections(secs, names) ==
    IF secs = <<>> THEN <<>>
    ELSE (IF to_lowercase(Head(secs).heading) \in names THEN <<Head(secs)>> ELSE <<>>)
         \o FilterSections(Tail(secs), names)

\* flat_map(|s| parse_examples(&s.content)).collect()
RECURSIVE FlatMapExamples(_)
FlatMapExamples(secs) ==
    IF secs = <<>> THEN <<>>
    ELSE parse_examples(Head(secs).content) \o FlatMapExamples(Tail(secs))

\* map(|s| s.content.trim()).collect()
TrimmedContents(secs) == [i \in 1..Len(secs) |-> Trim(secs[i].content)]

\* examples reading the sections headed Example only
examples_ExampleOnly == FlatMapExamples(FilterSections(sections, {Chars("example")}))

\* DocComment::examples
examples ==
    FlatMapExamples(FilterSections(sections, {Chars("example"), Chars("examples")}))

\* DocComment::notes
notes == TrimmedContents(FilterSections(sections, {Chars("note"), Chars("notes")}))

\* DocComment::warnings_content
warnings_content ==
    TrimmedContents(FilterSections(sections,
        {Chars("warning"), Chars("warnings"), Chars("caution")}))

\* DocComment::is_deprecated
is_deprecated == section(Chars("Deprecated")) # None

\* DocComment::deprecation_notice
deprecation_notice ==
    IF section(Chars("Deprecated")) # None
    THEN Some(Trim(section(Chars("Deprecated"))[1].content))
    ELSE None

(***************************************************************************)
(* Documents with the recognised sections, and the calls of the accessors  *)
(***************************************************************************)
\* Largest number of sections of an input document.
MaxSections == 2

\* descriptions: none; a title followed by a legacy type line; lines with "::"
\* of which the fifth is the first legacy type line
DocDescriptions ==
    { <<>>,
      Chars("T \nf :: a"),
      Chars("a b :: c\n:: d\ne ::\na.b :: c\n g'-_1 :: h :: i \nj :: k") }

\* sections as written in the input: the heading text and the body
SectionPool ==
    { << Chars("Type"), Rep(Backtick, 3) \o Chars("\ng :: b\n") \o Rep(Backtick, 3) >>,
      << Chars("TYPE"), Chars("p") >>,
      << Chars("Arguments"), Chars("- [a] x") >>,
      << Chars("ARGS"), Chars("- [b] y") >>,
      << Chars("Example"),
         Rep(Backtick, 3) \o Chars("nix\nx\n") \o Rep(Backtick, 3) >>,
      << Chars("EXAMPLES"), Rep(Tilde, 3) \o Chars("\ny\n") \o Rep(Tilde, 3) >>,
      << Chars("Note"), Chars("h :: c") >>,
      << Chars("notes"), Chars("m") >>,
      << Chars("Warning"), Chars("w") >>,
      << Chars("Warnings"), Chars("v") >>,
      << Chars("Caution"), Chars("c") >>,
      << Chars("Deprecated"), Chars("d") >>,
      << Chars("See Also"), Chars("u") >> }

SectionSeqs(n) == UNION { [1..k -> SectionPool] : k \in 0..n }

RECURSIVE RenderSections(_)
RenderSections(ss) ==
    IF ss = <<>> THEN <<>>
    ELSE NL \o Chars("# ") \o Head(ss)[1] \o NL \o Head(ss)[2]
            \o RenderSections(Tail(ss))

DocInputs ==
    { Chars("/**\n") \o d \o RenderSections(ss) \o Chars("\n*/") :
          d \in DocDescriptions, ss \in SectionSeqs(MaxSections) }

InitDoc == \E in \in DocInputs : InitWith(in)

\* The accessors take &self and leave the document as it is: a run makes one
\* call, on any parsed document, and every call is covered by some run.

\* names asked of DocComment::section
SectionNames == { Chars("type"), Chars("ARGS"), Chars("Zz") }

\* a call of title (lib.rs 136-140) on the parsed document
CallTitle ==
    /\ pc = "done"
    /\ result = "Ok"
    /\ call = NoCall
    /\ call' = [op |-> "title", arg |-> <<>>, ret |-> title]
    /\ UNCHANGED << input, pc, result, content, lines, idx, in_description,
                    in_code_block, fence_char, fence_len, current_heading,
                    description_lines, section_lines, sections, warnings,
                    description, ffi >>

\* a call of type_sig (lib.rs 192-199) on the parsed document
CallTypeSig ==
    /\ pc = "done"
    /\ result = "Ok"
    /\ call = NoCall
    /\ call' = [op |-> "type_sig", arg |-> <<>>, ret |-> type_sig]
    /\ UNCHANGED << input, pc, result, content, lines, idx, in_description,
                    in_code_block, fence_char, fence_len, current_heading,
                    description_lines, section_lines, sections, warnings,
                    description, ffi >>

\* a call of arguments (lib.rs 218-223) on the parsed document
CallArguments ==
    /\ pc = "done"
    /\ result = "Ok"
    /\ call = NoCall
    /\ call' = [op |-> "arguments", arg |-> <<>>, ret |-> arguments]
    /\ UNCHANGED << input, pc, result, content, lines, idx, in_description,
                    in_code_block, fence_char, fence_len, current_heading,
                    description_lines, section_lines, sections, warnings,
                    description, ffi >>

\* a call of examples (lib.rs 241-250) on the parsed document
CallExamples ==
    /\ pc = "done"
    /\ result = "Ok"
    /\ call = NoCall
    /\ call' = [op |-> "examples", arg |-> <<>>, ret |-> examples]
    /\ UNCHANGED << input, pc, result, content, lines, idx, in_description,
                    in_code_block, fence_char, fence_len, current_heading,
                    description_lines, section_lines, sections, warnings,
                    description, ffi >>

\* a call of notes (lib.rs 253-262) on the parsed document
CallNotes ==
    /\ pc = "done"
    /\ result = "Ok"
    /\ call = NoCall
    /\ call' = [op |-> "notes", arg |-> <<>>, ret |-> notes]
    /\ UNCHANGED << input, pc, result, content, lines, idx, in_description,
                    in_code_block, fence_char, fence_len, current_heading,
                    description_lines, section_lines, sections, warnings,
                    description, ffi >>

\* a call of warnings_content (lib.rs 266-275) on the parsed document
CallWarningsContent ==
    /\ pc = "done"
    /\ result = "Ok"
    /\ call = NoCall
    /\ call' = [op |-> "warnings_content", arg |-> <<>>, ret |-> warnings_content]
    /\ UNCHANGED << input, pc, result, content, lines, idx, in_description,
                    in_code_block, fence_char, fence_len, current_heading,
                    description_lines, section_lines, sections, warnings,
                    description, ffi >>

\* a call of is_deprecated (lib.rs 288-290) on the parsed document
CallIsDeprecated ==
    /\ pc = "done"
    /\ result = "Ok"
    /\ call = NoCall
    /\ call' = [op |-> "is_deprecated", arg |-> <<>>, ret |-> is_deprecated]
    /\ UNCHANGED << input, pc, result, content, lines, idx, in_description,
                    in_code_block, fence_char, fence_len, current_heading,
                    description_lines, section_lines, sections, warnings,
                    description, ffi >>

\* a call of deprecation_notice (lib.rs 293-295) on the parsed document
CallDeprecationNotice ==
    /\ pc = "done"
    /\ result = "Ok"
    /\ call = NoCall
    /\ call' = [op |-> "deprecation_notice", arg |-> <<>>, ret |-> deprecation_notice]
    /\ UNCHANGED << input, pc, result, content, lines, idx, in_description,
                    in_code_block, fence_char, fence_len, current_heading,
                    description_lines, section_lines, sections, warnings,
                    description, ffi >>

\* a call of section(name) (lib.rs 167-172) on the parsed document
CallSection ==
    /\ pc = "done"
    /\ result = "Ok"
    /\ call = NoCall
    /\ \E name \in SectionNames :
          call' = [op |-> "section", arg |-> name, ret |-> section(name)]
    /\ UNCHANGED << input, pc, result, content, lines, idx, in_description,
                    in_code_block, fence_char, fence_len, current_heading,
                    description_lines, section_lines, sections, warnings,
                    description, ffi >>

\* a call of kind (section.rs 34-36) on a section of the parsed document
CallKind ==
    /\ pc = "done"
    /\ result = "Ok"
    /\ call = NoCall
    /\ \E i \in 1..Len(sections) :
          call' = [op |-> "kind", arg |-> i, ret |-> kind(sections[i])]
    /\ UNCHANGED << input, pc, result, content, lines, idx, in_description,
                    in_code_block, fence_char, fence_len, current_heading,
                    description_lines, section_lines, sections, warnings,
                    description, ffi >>

NextDoc ==
    \/ ParseStart \/ SectionsLine \/ SectionsEnd \/ ClassifyWarnings
    \/ CallTitle \/ CallTypeSig \/ CallArguments \/ CallExamples \/ CallNotes
    \/ CallWarningsContent \/ CallIsDeprecated \/ CallDeprecationNotice
    \/ CallSection \/ CallKind

SpecDoc == InitDoc /\ [][NextDoc]_vars

(***************************************************************************)
(* Claims about the accessors                                              *)
(***************************************************************************)
\* the positions of the sections whose heading is name, whatever the case
SectionsNamed(name) ==
    {i \in 1..Len(sections) : to_lowercase(sections[i].heading) = to_lowercase(name)}

\* C11: when some section is headed Type (in any case), type_sig returns the
\* first fenced code block of the first such section's body, and nothing when
\* that body has no code block; only a document without a Type section gets the
\* result of the legacy scan of its description.
C11_TypeSectionDecides ==
    call.op = "type_sig" =>
        IF SectionsNamed(Chars("Type")) # {}
        THEN call.ret = extract_first_code_block(
                            sections[Min(SectionsNamed(Chars("Type")))].content)
        ELSE call.ret = extract_inline_type_sig(description)

\* type_sig is none although the description holds a legacy type line: the first
\* Type section has no code block, a later one has
C11_Witness ==
    /\ call.op = "type_sig"
    /\ call.ret = None
    /\ extract_inline_type_sig(description) # None
    /\ Cardinality(SectionsNamed(Chars("Type"))) = 2
    /\ extract_first_code_block(
           sections[Max(SectionsNamed(Chars("Type")))].content) # None

(***************************************************************************)
(* The sub-parsers called on a body of their own (parser.rs 262-394)       *)
(***************************************************************************)
\* Largest number of lines of an Arguments body.
MaxArgLines == 3

\* lines of an Arguments body
ArgVocabulary ==
    { Chars("- [a] x"),         \* an argument with a description
      Chars("- [ b ]"),         \* a name with whitespace around it, no description
      Chars(" - [c]z "),        \* an indented argument line
      Chars("- []"),            \* an empty name
      Chars("- [ ] t"),         \* a blank name (a Markdown task item)
      Chars("- [d"),            \* no closing bracket
      Chars("  y"),             \* an indented line
      Chars("p"),               \* prose
      <<>> }                    \* an empty line

ArgBodies == { Join(b, NL) : b \in UNION { [1..k -> ArgVocabulary] : k \in 0..MaxArgLines } }

\* the state before a sub-parser, named by at, is called on the text in
InitCall(in, at) ==
    /\ input = in
    /\ pc = at
    /\ result = "none"
    /\ content = <<>>
    /\ lines = <<>>
    /\ idx = 0
    /\ in_description = TRUE
    /\ in_code_block = FALSE
    /\ fence_char = Backtick
    /\ fence_len = 3
    /\ current_heading = None
    /\ description_lines = <<>>
    /\ section_lines = <<>>
    /\ sections = <<>>
    /\ warnings = <<>>
    /\ description = <<>>
    /\ call = NoCall
    /\ ffi = NoFfi

\* a call of parse_arguments on the text in input
CallParseArguments ==
    /\ pc = "parse_arguments"
    /\ call' = [op |-> "parse_arguments", arg |-> input, ret |-> parse_arguments(input)]
    /\ pc' = "returned"
    /\ UNCHANGED << input, result, content, lines, idx, in_description,
                    in_code_block, fence_char, fence_len, current_heading,
                    description_lines, section_lines, sections, warnings,
                    description, ffi >>

(***************************************************************************)
(* Claims about the arguments parser                                       *)
(***************************************************************************)
\* the k-th smallest element of a set of numbers
Nth(S, k) == CHOOSE i \in S : Cardinality({j \in S : j <= i}) = k

\* a line whose trimmed form is "- [" NAME "]" ...
HasBracketName(line) ==
    /\ StartsWith(Trim(line), Chars("- ["))
    /\ \E k \in 4..Len(Trim(line)) : Trim(line)[k] = "]"

\* the place of the bracket that closes the name
NameEnd(line) == Min({k \in 4..Len(Trim(line)) : Trim(line)[k] = "]"})

\* NAME, as written between the brackets
BracketName(line) == SubSeq(Trim(line), 4, NameEnd(line) - 1)

\* the text after the closing bracket
AfterBracket(line) == SubSeq(Trim(line), NameEnd(line) + 1, Len(Trim(line)))

\* the result holds, in source order, one Argument for each of the lines at
\* the positions in S: its trimmed name, and a description that begins with the
\* trimmed text after the bracket
OneArgumentPerLine(ret, ls, S) ==
    /\ Len(ret) = Cardinality(S)
    /\ \A k \in 1..Len(ret) :
          /\ ret[k].name = Trim(BracketName(ls[Nth(S, k)]))
          /\ StartsWith(ret[k].description, Trim(AfterBracket(ls[Nth(S, k)])))

\* C12, as stated: one Argument for every line "- [NAME]..." whose NAME is not
\* empty, in source order, named NAME trimmed, described from the trimmed text
\* after the bracket.
C12_OnePerNonEmptyName ==
    call.op = "parse_arguments" =>
        LET ls == StrLines(call.arg)
        IN  OneArgumentPerLine(call.ret, ls,
                {i \in 1..Len(ls) : HasBracketName(ls[i]) /\ BracketName(ls[i]) # <<>>})

\* C12, amended: one Argument for every line "- [NAME]..." whose NAME is not
\* blank (not empty once trimmed), in source order, named NAME trimmed,
\* described from the trimmed text after the bracket.
C12_OnePerNonBlankName ==
    call.op = "parse_arguments" =>
        LET ls == StrLines(call.arg)
        IN  OneArgumentPerLine(call.ret, ls,
                {i \in 1..Len(ls) : HasBracketName(ls[i])
                                       /\ Trim(BracketName(ls[i])) # <<>>})

\* a body with a blank name and a name written with whitespace around it: only
\* the second makes an argument, and its name is trimmed
C12_Witness ==
    /\ call.op = "parse_arguments"
    /\ \E i, j \in 1..Len(StrLines(call.arg)) :
          /\ i < j
          /\ StrLines(call.arg)[i] = Chars("- [ ] t")
          /\ StrLines(call.arg)[j] = Chars("- [ b ]")
    /\ Len(call.ret) = 1
    /\ call.ret[1].name = Chars("b")

(***************************************************************************)
(* The examples parser and the extractor called on a body of their own     *)
(***************************************************************************)
\* Largest number of lines of a body with fences.
MaxFenceLines == 5

\* lines of a body with fences
FenceVocabulary ==
    { Rep(Backtick, 3),                         \* a fence of three
      Rep(Backtick, 3) \o Chars("nix x"),       \* an opening fence with an info string
      Rep(Backtick, 4),                         \* a fence of four
      Rep(Tilde, 3),                            \* a fence of the other character
      <<" ">> \o Rep(Backtick, 3) \o <<" ", " ">>,  \* indented, spaces after the run
      Chars(" x") }                             \* an indented line of text

FenceBodies ==
    { Join(b, NL) : b \in UNION { [1..k -> FenceVocabulary] : k \in 0..MaxFenceLines } }

\* Longest run of fence characters of a single line handed to the fence tracker.
MaxRun == 5

\* what follows the run of fence characters on such a line
FenceSuffixes ==
    { <<>>, Chars("  "), <<"\t">>, Chars("nix"), Chars(" nix x"), <<" ", Backtick>> }

\* single lines: an optional indent, a run of two or more backticks or tildes,
\* a suffix; and lines that start otherwise
FenceLines ==
    { indent \o Rep(c, k) \o suffix :
          indent \in {<<>>, <<" ">>}, c \in {Backtick, Tilde},
          k \in 2..MaxRun, suffix \in FenceSuffixes }
    \cup { <<Backtick, Backtick, Tilde, Tilde>>, Chars(" x"), <<>>,
           <<"x">> \o Rep(Backtick, 3) }

\* the state before is_closing_fence is called on the line in, inside a block
\* opened with fl characters fc
InitClosingFence(in, fc, fl) ==
    /\ input = in
    /\ pc = "is_closing_fence"
    /\ result = "none"
    /\ content = <<>>
    /\ lines = <<>>
    /\ idx = 0
    /\ in_description = TRUE
    /\ in_code_block = TRUE
    /\ fence_char = fc
    /\ fence_len = fl
    /\ current_heading = None
    /\ description_lines = <<>>
    /\ section_lines = <<>>
    /\ sections = <<>>
    /\ warnings = <<>>
    /\ description = <<>>
    /\ call = NoCall
    /\ ffi = NoFfi

InitSub ==
    \/ \E b \in ArgBodies : InitCall(b, "parse_arguments")
    \/ \E b \in FenceBodies : InitCall(b, "parse_examples")
    \/ \E b \in FenceBodies : InitCall(b, "extract_first_code_block")
    \/ \E l \in FenceLines : InitCall(l, "parse_fence_open")
    \/ \E l \in FenceLines, fc \in {Backtick, Tilde}, fl \in 3..MaxRun :
          InitClosingFence(l, fc, fl)

\* a call of parse_examples on the text in input
CallParseExamples ==
    /\ pc = "parse_examples"
    /\ call' = [op |-> "parse_examples", arg |-> input, ret |-> parse_examples(input)]
    /\ pc' = "returned"
    /\ UNCHANGED << input, result, content, lines, idx, in_description,
                    in_code_block, fence_char, fence_len, current_heading,
                    description_lines, section_lines, sections, warnings,
                    description, ffi >>

\* a call of extract_first_code_block on the text in input
CallExtractFirstCodeBlock ==
    /\ pc = "extract_first_code_block"
    /\ call' = [op |-> "extract_first_code_block", arg |-> input,
                ret |-> extract_first_code_block(input)]
    /\ pc' = "returned"
    /\ UNCHANGED << input, result, content, lines, idx, in_description,
                    in_code_block, fence_char, fence_len, current_heading,
                    description_lines, section_lines, sections, warnings,
                    description, ffi >>

\* a call of parse_fence_open on the line in input, as the callers make it
\* (parser.rs 174-178, 325-327, 372-374): leading whitespace stripped
CallParseFenceOpen ==
    /\ pc = "parse_fence_open"
    /\ call' = [op |-> "parse_fence_open", arg |-> input,
                ret |-> parse_fence_open(TrimStart(input))]
    /\ pc' = "returned"
    /\ UNCHANGED << input, result, content, lines, idx, in_description,
                    in_code_block, fence_char, fence_len, current_heading,
                    description_lines, section_lines, sections, warnings,
                    description, ffi >>

\* a call of is_closing_fence on the line in input, as the callers make it
\* (parser.rs 174-182, 325-335, 372-379): leading whitespace stripped, the
\* character and length of the open fence
CallIsClosingFence ==
    /\ pc = "is_closing_fence"
    /\ call' = [op |-> "is_closing_fence", arg |-> input,
                ret |-> is_closing_fence(TrimStart(input), fence_char, fence_len)]
    /\ pc' = "returned"
    /\ UNCHANGED << input, result, content, lines, idx, in_description,
                    in_code_block, fence_char, fence_len, current_heading,
                    description_lines, section_lines, sections, warnings,
                    description, ffi >>

NextSub ==
    \/ CallParseArguments \/ CallParseExamples \/ CallExtractFirstCodeBlock
    \/ CallParseFenceOpen \/ CallIsClosingFence

SpecSub == InitSub /\ [][NextSub]_vars

(***************************************************************************)
(* Claims about the examples parser                                        *)
(***************************************************************************)
\* the lines that open a fence, and the lines that close one, by the fencing rule
OpeningLines(ls) ==
    {k \in 1..Len(ls) : ~FenceAfter(ls, k - 1).open /\ FenceAfter(ls, k).open}
ClosingLines(ls) ==
    {k \in 1..Len(ls) : FenceAfter(ls, k - 1).open /\ ~FenceAfter(ls, k).open}

\* the opening line of the fence that line k closes
OpenerOf(ls, k) == Max({j \in OpeningLines(ls) : j < k})

\* the first whitespace-delimited token after the run of fence characters
InfoToken(line) ==
    LET info  == Skip(TrimStart(line), RunLength(line))
        start == {i \in 1..Len(info) : ~IsWhitespace(info[i])}
    IN  IF start = {} THEN None
        ELSE Some(SubSeq(info, Min(start),
                         Min({i \in Min(start)..Len(info) : IsWhitespace(info[i])}
                                 \cup {Len(info) + 1}) - 1))

\* the lines from..to of ls, each followed by a line break
RECURSIVE LinesWithBreaks(_, _, _)
LinesWithBreaks(ls, from, to) ==
    IF from > to THEN <<>>
    ELSE ls[from] \o NL \o LinesWithBreaks(ls, from + 1, to)

\* C13: the examples parser yields one Example per cycle of opening and closing
\* fence, in source order: its language is the info token of its own opening
\* line (none when there is none), its code is the lines strictly between the
\* two fence lines, each followed by a line break.  The fence lines are never
\* in the code; a shorter run inside a longer fence is.  (An Example beyond the
\* cycles can only be the one of a block left open at the end of the body.)
C13_OneExamplePerCycle ==
    call.op = "parse_examples" =>
        LET ls     == StrLines(call.arg)
            closes == ClosingLines(ls)
        IN  /\ Len(call.ret) >= Cardinality(closes)
            /\ Len(call.ret) <= Cardinality(closes) + 1
            /\ Len(call.ret) > Cardinality(closes) => FenceAfter(ls, Len(ls)).open
            /\ \A m \in 1..Cardinality(closes) :
                  LET k == Nth(closes, m)
                      o == OpenerOf(ls, k)
                  IN  /\ call.ret[m].language = InfoToken(ls[o])
                      /\ call.ret[m].code = LinesWithBreaks(ls, o + 1, k - 1)

\* a fence of four that holds a fence of three, closed, then a fence with an
\* info string: two Examples, the first with the shorter run as its code and no
\* language, the second with the language of its own opening line
C13_Witness ==
    /\ call.op = "parse_examples"
    /\ StrLines(call.arg) = << Rep(Backtick, 4), Rep(Backtick, 3), Rep(Backtick, 4),
                               Rep(Backtick, 3) \o Chars("nix x"), Rep(Backtick, 3) >>
    /\ call.ret = << Example(None, Rep(Backtick, 3) \o NL),
                     Example(Some(Chars("nix")), <<>>) >>

(***************************************************************************)
(* Claims about the accessors filtered by kind                             *)
(***************************************************************************)
\* the positions of the sections that classify as one of the tags
SectionsOfKind(tags) == {i \in 1..Len(sections) : kind(sections[i]).tag \in tags}

\* the Examples of the sections at the positions of S from the k-th on, in order
RECURSIVE ExamplesFrom(_, _)
ExamplesFrom(S, k) ==
    IF k > Cardinality(S) THEN <<>>
    ELSE parse_examples(sections[Nth(S, k)].content) \o ExamplesFrom(S, k + 1)

\* the trimmed bodies of the sections at the positions of S, in order
BodiesOf(S) == [k \in 1..Cardinality(S) |-> Trim(sections[Nth(S, k)].content)]

\* C14: the accessors filtered by kind agree with the classification:
\* examples() is the concatenation, in document order, of the Examples of every
\* section that classifies as Example or Examples; notes() and
\* warnings_content() hold one trimmed body per section that classifies as
\* Note/Notes and as Warning; is_deprecated() holds exactly when some section
\* classifies as Deprecated, and deprecation_notice() is present exactly then.
C14_AccessorsFollowKind ==
    /\ call.op = "examples" =>
          call.ret = ExamplesFrom(SectionsOfKind({"Example", "Examples"}), 1)
    /\ call.op = "notes" => call.ret = BodiesOf(SectionsOfKind({"Note", "Notes"}))
    /\ call.op = "warnings_content" => call.ret = BodiesOf(SectionsOfKind({"Warning"}))
    /\ call.op = "is_deprecated" =>
          (call.ret <=> SectionsOfKind({"Deprecated"}) # {})
    /\ call.op = "deprecation_notice" =>
          (call.ret # None <=> SectionsOfKind({"Deprecated"}) # {})

\* examples() of a document with a section of each of the two kinds, the
\* Examples one first: one Example from each, in document order
C14_Witness ==
    /\ call.op = "examples"
    /\ Len(sections) = 2
    /\ kind(sections[1]).tag = "Examples"
    /\ kind(sections[2]).tag = "Example"
    /\ Len(call.ret) = 2
    /\ call.ret[1].language = None
    /\ call.ret[2].language = Some(Chars("nix"))

\* C15: arguments() parses the body of the first section headed Arguments when
\* there is one, wherever it stands relative to a section headed Args; without
\* one, the body of the first section headed Args; without either it is empty.
\* Further sections of either name add nothing to the result.
C15_ArgumentsBeforeArgs ==
    call.op = "arguments" =>
        IF SectionsNamed(Chars("Arguments")) # {}
        THEN call.ret = parse_arguments(
                            sections[Min(SectionsNamed(Chars("Arguments")))].content)
        ELSE IF SectionsNamed(Chars("Args")) # {}
        THEN call.ret = parse_arguments(
                            sections[Min(SectionsNamed(Chars("Args")))].content)
        ELSE call.ret = <<>>

\* a section headed ARGS followed by one headed Arguments: the result is the
\* one argument of the second
C15_Witness ==
    /\ call.op = "arguments"
    /\ Len(sections) = 2
    /\ sections[1].heading = Chars("ARGS")
    /\ sections[2].heading = Chars("Arguments")
    /\ parse_arguments(sections[1].content) # <<>>
    /\ call.ret = << Argument(Chars("a"), Chars("x")) >>

\* C16: section(name) returns the first section, in document order, whose
\* heading equals name whatever the case of either, and nothing when no
\* heading matches.
C16_FirstSectionOfName ==
    call.op = "section" =>
        IF \E i \in 1..Len(sections) :
               to_lowercase(sections[i].heading) = to_lowercase(call.arg)
        THEN /\ call.ret # None
             /\ \E i \in 1..Len(sections) :
                   /\ call.ret[1] = sections[i]
                   /\ to_lowercase(sections[i].heading) = to_lowercase(call.arg)
                   /\ \A j \in 1..(i - 1) :
                         to_lowercase(sections[j].heading) # to_lowercase(call.arg)
        ELSE call.ret = None

\* section("type") on a document with two sections headed TYPE and Type, in
\* that order: the first is returned, and it differs from the second
C16_Witness ==
    /\ call.op = "section"
    /\ call.arg = Chars("type")
    /\ Len(sections) = 2
    /\ sections[1].heading = Chars("TYPE")
    /\ sections[2].heading = Chars("Type")
    /\ call.ret = Some(sections[1])
    /\ sections[1] # sections[2]

(***************************************************************************)
(* Claims about title and the classification                               *)
(***************************************************************************)
\* C17: title() is the first non-blank line of the trimmed description, itself
\* trimmed, and none exactly when the description is blank: a parsed document
\* with a non-empty description has a title, one whose content starts with a
\* heading has none.
C17_TitleIsFirstNonBlankLine ==
    call.op = "title" =>
        LET ls       == StrLines(Trim(description))
            nonblank == {i \in 1..Len(ls) : Trim(ls[i]) # <<>>}
        IN  /\ IF nonblank = {} THEN call.ret = None
               ELSE call.ret = Some(Trim(ls[Min(nonblank)]))
            /\ call.ret = None <=> Trim(description) = <<>>
            /\ description # <<>> => call.ret # None
            /\ LooksLikeHeading(lines[1]) => call.ret = None

\* the title of a description whose first line ends in a space, with a second
\* line after it: the first line without the space
C17_Witness ==
    /\ call.op = "title"
    /\ description = Chars("T \nf :: a")
    /\ call.ret = Some(Chars("T"))

\* the fixed table of the classifier: lowercased heading, tag
KindTable ==
    { << Chars("type"), "Type" >>, << Chars("arguments"), "Arguments" >>,
      << Chars("args"), "Arguments" >>, << Chars("example"), "Example" >>,
      << Chars("examples"), "Examples" >>, << Chars("note"), "Note" >>,
      << Chars("notes"), "Notes" >>, << Chars("warning"), "Warning" >>,
      << Chars("warnings"), "Warning" >>, << Chars("caution"), "Warning" >>,
      << Chars("deprecated"), "Deprecated" >> }

\* the kind the table gives a heading
TableKind(heading) ==
    IF \E e \in KindTable : e[1] = to_lowercase(heading)
    THEN [tag |-> (CHOOSE e \in KindTable : e[1] = to_lowercase(heading))[2]]
    ELSE [tag |-> "Unknown", text |-> to_lowercase(heading)]

\* C18: the kind of a section is the entry of the fixed table that its heading
\* matches exactly once lowercased, and Unknown carrying the lowercased heading
\* for every other heading.  It is computed when asked for: the call leaves the
\* sections as they were, their headings as written in the comment.
C18_KindFromTable ==
    [][ call'.op = "kind" =>
            /\ call'.ret = TableKind(sections[call'.arg].heading)
            /\ sections' = sections
            /\ \E k \in 1..Len(lines) :
                  lines[k] = Chars("# ") \o sections'[call'.arg].heading ]_vars

\* the kind of a section headed "See Also": Unknown with the lowercased text,
\* the stored heading as written
C18_Witness ==
    /\ call.op = "kind"
    /\ sections[call.arg].heading = Chars("See Also")
    /\ call.ret = [tag |-> "Unknown", text |-> Chars("see also")]

(***************************************************************************)
(* The C boundary (ffi.rs 11-14, 59-96)                                    *)
(***************************************************************************)
NIXDOC_SUCCESS == 0
NIXDOC_ERROR_PARSE == 1
NIXDOC_ERROR_NULL == 2
NIXDOC_ERROR_PANIC == 3

\* pointer values: the null pointer, whatever the caller's variable held before
\* the call, and the box that nixdoc_parse_into allocates
NullPtr == "null"
StalePtr == "stale"
DocPtr == "doc"

\* a byte that is not valid UTF-8, and the character U+FFFD that replaces it
InvalidByte == "BYTE_FF"
ReplacementChar == "U+FFFD"

\* CStr::to_string_lossy
to_string_lossy(bytes) ==
    [i \in 1..Len(bytes) |-> IF bytes[i] = InvalidByte THEN ReplacementChar ELSE bytes[i]]

\* the C strings handed to the boundary
CStrings ==
    { w[1] \o Join(b, NL) \o w[2] :
          w \in {DocWrapper} \cup EdgeWrappers, b \in Bodies(MaxWrapLines) }
    \cup { Chars("/**") \o <<InvalidByte>> \o Chars("*/") }

\* The caller's arguments: input is None for a null pointer and Some(bytes)
\* otherwise; out_doc is null or points to the caller's variable, whose value is
\* slot.  unwound tells that a fault unwound out of the closure; heap holds the
\* live boxes.
InitFfi ==
    /\ \E in \in {None} \cup {Some(s) : s \in CStrings},
          out \in {NullPtr, "slot"},
          before \in {NullPtr, StalePtr} :
            ffi = [active |-> TRUE, input |-> in, out_doc |-> out, slot |-> before,
                   unwound |-> FALSE, heap |-> {}]
    /\ input = <<>>
    /\ pc = "nixdoc_parse_into"
    /\ result = "none"
    /\ content = <<>>
    /\ lines = <<>>
    /\ idx = 0
    /\ in_description = TRUE
    /\ in_code_block = FALSE
    /\ fence_char = Backtick
    /\ fence_len = 3
    /\ current_heading = None
    /\ description_lines = <<>>
    /\ section_lines = <<>>
    /\ sections = <<>>
    /\ warnings = <<>>
    /\ description = <<>>
    /\ call = NoCall

\* the null test looking at input only
NullArgument_InputOnly(f) == f.input = None

\* line 63: input.is_null() || out_doc.is_null()
NullArgument(f) == f.input = None \/ f.out_doc = NullPtr

\* lines 63-71: the null test, then the closure up to the call of parse
ParseIntoEnter ==
    /\ pc = "nixdoc_parse_into"
    /\ IF NullArgument(ffi)
       THEN /\ call' = [op |-> "nixdoc_parse_into", ret |-> NIXDOC_ERROR_NULL]
            /\ pc' = "returned"
            /\ UNCHANGED input
       ELSE /\ input' = to_string_lossy(ffi.input[1])
            /\ pc' = "start"
            /\ UNCHANGED call
    /\ UNCHANGED << result, content, lines, idx, in_description, in_code_block,
                    fence_char, fence_len, current_heading, description_lines,
                    section_lines, sections, warnings, description, ffi >>

\* lines 71-82: the closure after parse has returned, and the match on its
\* result: the box and the write of *out_doc on success only
ParseIntoReturn ==
    /\ ffi.active
    /\ pc = "done"
    /\ IF result = "Ok"
       THEN /\ ffi' = [ffi EXCEPT !.heap = @ \cup {DocPtr}, !.slot = DocPtr]
            /\ call' = [op |-> "nixdoc_parse_into", ret |-> NIXDOC_SUCCESS]
       ELSE /\ call' = [op |-> "nixdoc_parse_into", ret |-> NIXDOC_ERROR_PARSE]
            /\ UNCHANGED ffi
    /\ pc' = "returned"
    /\ UNCHANGED << input, result, content, lines, idx, in_description,
                    in_code_block, fence_char, fence_len, current_heading,
                    description_lines, section_lines, sections, warnings,
                    description >>

\* lines 67 and 81: a fault unwinds out of the closure, at any step of it before
\* the write of *out_doc, which is its last statement; catch_unwind returns Err
ParseIntoPanic ==
    /\ ffi.active
    /\ pc \in {"start", "sections", "flushed", "done"}
    /\ ffi' = [ffi EXCEPT !.unwound = TRUE]
    /\ call' = [op |-> "nixdoc_parse_into", ret |-> NIXDOC_ERROR_PANIC]
    /\ pc' = "returned"
    /\ UNCHANGED << input, result, content, lines, idx, in_description,
                    in_code_block, fence_char, fence_len, current_heading,
                    description_lines, section_lines, sections, warnings,
                    description >>

\* lines 92-96, called on null or on a pointer that nixdoc_parse_into returned
\* and that was not freed before
nixdoc_free ==
    /\ ffi.active
    /\ pc = "returned"
    /\ call.op = "nixdoc_parse_into"
    /\ \E ptr \in {NullPtr} \cup ffi.heap :
          /\ call' = [op |-> "nixdoc_free", arg |-> ptr]
          /\ IF ptr # NullPtr
             THEN ffi' = [ffi EXCEPT !.heap = @ \ {ptr}]
             ELSE UNCHANGED ffi
    /\ UNCHANGED << input, pc, result, content, lines, idx, in_description,
                    in_code_block, fence_char, fence_len, current_heading,
                    description_lines, section_lines, sections, warnings,
                    description >>

NextFfi ==
    \/ ParseIntoEnter
    \/ ParseStart \/ SectionsLine \/ SectionsEnd \/ ClassifyWarnings
    \/ ParseIntoReturn \/ ParseIntoPanic \/ nixdoc_free

SpecFfi == InitFfi /\ [][NextFfi]_vars

(***************************************************************************)
(* Claims about the C boundary                                             *)
(***************************************************************************)
\* the step in which nixdoc_parse_into returns
ParseIntoReturns == call.op = "none" /\ call'.op = "nixdoc_parse_into"

\* C19: nixdoc_parse_into returns the null status (2) when input or out_doc is
\* null, the parse-error status (1) when parsing fails, the internal-fault
\* status (3) when a fault is caught, and success (0) otherwise.  *out_doc is
\* written only in a return with success and is left as it was with every
\* other status.  nixdoc_free of a null handle changes nothing.
C19_StatusAndOutDoc ==
    [][ /\ ParseIntoReturns =>
              /\ call'.ret =
                    IF ffi.input = None \/ ffi.out_doc = NullPtr THEN NIXDOC_ERROR_NULL
                    ELSE IF ffi'.unwound THEN NIXDOC_ERROR_PANIC
                    ELSE IF result' # "Ok" THEN NIXDOC_ERROR_PARSE
                    ELSE NIXDOC_SUCCESS
              /\ call'.ret = NIXDOC_SUCCESS <=> ffi'.slot # ffi.slot
              /\ call'.ret = NIXDOC_SUCCESS => ffi'.slot \in ffi'.heap
        /\ ffi'.slot # ffi.slot => ParseIntoReturns
        /\ (call'.op = "nixdoc_free" /\ call'.arg = NullPtr) => ffi' = ffi
      ]_vars

\* a parse failure on non-null arguments: status 1, the caller's variable as it
\* was before the call, and then a free of null that changes nothing
C19_Witness ==
    /\ call.op = "nixdoc_free"
    /\ call.arg = NullPtr
    /\ ffi.input # None
    /\ ffi.out_doc # NullPtr
    /\ result = "EmptyComment"
    /\ ffi.slot = StalePtr
    /\ ffi.heap = {}

(***************************************************************************)
(* Claims about lines with an empty name                                   *)
(***************************************************************************)
\* a line "- []...": the brackets hold nothing
HasEmptyName(line) == HasBracketName(line) /\ BracketName(line) = <<>>

\* the lines of ls without those that have an empty name
RECURSIVE WithoutEmptyNames(_)
WithoutEmptyNames(ls) ==
    IF ls = <<>> THEN <<>>
    ELSE (IF HasEmptyName(Head(ls)) THEN <<>> ELSE <<Head(ls)>>)
         \o WithoutEmptyNames(Tail(ls))

\* C20: a line "- []" is skipped by the arguments parser: it starts no argument
\* and does not flush the one before it, which stays current, so the result is
\* the one of the body without that line, and an indented line after it
\* continues the description of the argument before it.
C20_EmptyNameIsSkipped ==
    call.op = "parse_arguments" =>
        call.ret = FlushArgument(ArgumentsLoop(ArgumentsLocals,
                                     WithoutEmptyNames(StrLines(call.arg)))).arguments

(***************************************************************************)
(* Claims about the continuation lines of an argument                      *)
(***************************************************************************)
\* a line that starts an argument: "- [NAME]..." with a non-blank NAME
IsArgumentLine(line) == HasBracketName(line) /\ Trim(BracketName(line)) # <<>>

\* a line that continues the description of a current argument: not an
\* argument line, non-empty once trimmed, and indented as written
IsContinuationLine(line) ==
    /\ ~IsArgumentLine(line)
    /\ Trim(line) # <<>>
    /\ IsWhitespace(line[1])

\* the pieces joined by single spaces, an empty first piece left out
RECURSIVE SpaceJoined(_, _)
SpaceJoined(acc, pieces) ==
    IF pieces = <<>> THEN acc
    ELSE SpaceJoined((IF acc # <<>> THEN acc \o <<" ">> ELSE acc) \o Head(pieces),
                     Tail(pieces))

\* the trimmed continuation lines among ls[from..to], in order
RECURSIVE ContinuationsIn(_, _, _)
ContinuationsIn(ls, from, to) ==
    IF from > to THEN <<>>
    ELSE (IF IsContinuationLine(ls[from]) THEN <<Trim(ls[from])>> ELSE <<>>)
         \o ContinuationsIn(ls, from + 1, to)

\* the description of the argument that starts at line i: the text after the
\* bracket and every continuation line up to the next argument line
DescriptionFrom(ls, i) ==
    LET later == {j \in (i + 1)..Len(ls) : IsArgumentLine(ls[j])}
        last  == IF later = {} THEN Len(ls) ELSE Min(later) - 1
    IN  SpaceJoined(Trim(AfterBracket(ls[i])), ContinuationsIn(ls, i + 1, last))

\* C21: a line is appended, trimmed and joined by a space, to the description of
\* the current argument exactly when an argument is current, the line is not
\* empty once trimmed and the line as written starts with whitespace; any other
\* line that starts no argument changes nothing, and a later indented line
\* still continues the same argument.
C21_ContinuationRule ==
    call.op = "parse_arguments" =>
        LET ls   == StrLines(call.arg)
            args == {i \in 1..Len(ls) : IsArgumentLine(ls[i])}
        IN  /\ Len(call.ret) = Cardinality(args)
            /\ \A k \in 1..Len(call.ret) :
                  call.ret[k].description = DescriptionFrom(ls, Nth(args, k))

(***************************************************************************)
(* Claims about blocks left open, and about the extractor                  *)
(***************************************************************************)
\* the opening line of the fence that is open at the end of ls
LastOpener(ls) == Max(OpeningLines(ls))

\* the Example of the block that is open at the end of ls
UnclosedExample(ls) ==
    Example(InfoToken(ls[LastOpener(ls)]),
            LinesWithBreaks(ls, LastOpener(ls) + 1, Len(ls)))

\* C22, as stated: a fence that is open at the end of the body always yields
\* one Example, the last one, with the language of its opening line and the
\* lines after it as its code; it is never discarded.
C22_UnclosedAlwaysKept ==
    call.op = "parse_examples" =>
        LET ls == StrLines(call.arg)
        IN  FenceAfter(ls, Len(ls)).open =>
                /\ Len(call.ret) = Cardinality(ClosingLines(ls)) + 1
                /\ call.ret[Len(call.ret)] = UnclosedExample(ls)

\* C22, amended: a fence that is open at the end of the body yields one Example,
\* the last one, with the language of its opening line and the lines after it
\* as its code, when at least one line follows the opening line; when the
\* opening line is the last line of the body it yields no Example.
C22_UnclosedKeptWhenNonEmpty ==
    call.op = "parse_examples" =>
        LET ls == StrLines(call.arg)
        IN  FenceAfter(ls, Len(ls)).open =>
                IF LastOpener(ls) < Len(ls)
                THEN /\ Len(call.ret) = Cardinality(ClosingLines(ls)) + 1
                     /\ call.ret[Len(call.ret)] = UnclosedExample(ls)
                ELSE Len(call.ret) = Cardinality(ClosingLines(ls))

\* a closed block, then a fence with an info string left open over two lines,
\* one of them a fence of the other character: two Examples, the second with
\* that language and both lines
C22_Witness ==
    /\ call.op = "parse_examples"
    /\ StrLines(call.arg) = << Rep(Backtick, 3), Rep(Backtick, 3),
                               Rep(Backtick, 3) \o Chars("nix x"),
                               Rep(Tilde, 3), Chars(" x") >>
    /\ call.ret = << Example(None, <<>>),
                     Example(Some(Chars("nix")),
                             Rep(Tilde, 3) \o NL \o Chars(" x") \o NL) >>

\* C23: the extractor returns the lines between the first opening fence and the
\* fence that closes it, each followed by a line break, and reads nothing after
\* that closing fence; none when no fence opens; the empty text for a block
\* closed right after its opening line; for a first fence that never closes, the
\* lines after it when there are any and none otherwise.
C23_FirstBlockOnly ==
    call.op = "extract_first_code_block" =>
        LET ls     == StrLines(call.arg)
            opens  == OpeningLines(ls)
            closes == ClosingLines(ls)
        IN  IF opens = {} THEN call.ret = None
            ELSE IF closes # {}
            THEN call.ret = Some(LinesWithBreaks(ls, Min(opens) + 1, Min(closes) - 1))
            ELSE IF Min(opens) < Len(ls)
            THEN call.ret = Some(LinesWithBreaks(ls, Min(opens) + 1, Len(ls)))
            ELSE call.ret = None

\* a line of text, a block with one line, then a second fence left open with a
\* line: the result is the one line of the first block
C23_Witness ==
    /\ call.op = "extract_first_code_block"
    /\ StrLines(call.arg) = << Rep(Backtick, 3) \o Chars("nix x"), Chars(" x"),
                               Rep(Backtick, 4), Rep(Tilde, 3), Chars(" x") >>
    /\ call.ret = Some(Chars(" x") \o NL)

\* C28: the extractor and the examples parser agree on every body: the
\* extractor returns none exactly when the examples parser returns no Example,
\* and otherwise the code of its first Example, for closed, unclosed and empty
\* blocks alike.
C28_ExtractorIsFirstExample ==
    call.op = "extract_first_code_block" =>
        /\ call.ret = None <=> parse_examples(call.arg) = <<>>
        /\ call.ret # None => call.ret[1] = parse_examples(call.arg)[1].code

\* a fence left open with two lines: the extractor returns them, and they are
\* the code of the only Example
C28_Witness ==
    /\ call.op = "extract_first_code_block"
    /\ ClosingLines(StrLines(call.arg)) = {}
    /\ OpeningLines(StrLines(call.arg)) # {}
    /\ Len(StrLines(call.arg)) = LastOpener(StrLines(call.arg)) + 2
    /\ call.ret # None
    /\ Len(parse_examples(call.arg)) = 1
    /\ parse_examples(call.arg)[1].code = call.ret[1]

(***************************************************************************)
(* Claims about the fence tracker                                          *)
(***************************************************************************)
\* C24: a line closes an open fence of n characters c exactly when, leading
\* whitespace stripped, it starts with a run of at least n characters c and has
\* nothing but spaces after the run: a longer run closes a shorter fence; a
\* shorter run, a run of the other character, and a run followed by an info
\* string or any character other than a space do not.
C24_ClosingFence ==
    call.op = "is_closing_fence" =>
        /\ call.ret <=> ClosesFence(call.arg, fence_char, fence_len)
        /\ call.ret =>
              /\ OpensFence(call.arg)
              /\ RunLength(call.arg) >= fence_len
              /\ TrimStart(call.arg)[1] = fence_char
              /\ InfoToken(call.arg) = None

\* a run of five closes a fence of four, with spaces after the run
C24_Witness ==
    /\ call.op = "is_closing_fence"
    /\ fence_len = 4
    /\ call.arg = <<" ">> \o Rep(fence_char, 5) \o Chars("  ")
    /\ call.ret

\* C25: a line, leading whitespace stripped, opens a fence exactly when it
\* starts with three or more identical characters, all backticks or all tildes;
\* the length reported is the length of the whole run of that character, and
\* the language is the first whitespace-delimited token after the run, none
\* when only whitespace follows.
C25_OpeningFence ==
    call.op = "parse_fence_open" =>
        /\ call.ret.open <=> OpensFence(call.arg)
        /\ call.ret.open =>
              /\ call.ret.char = TrimStart(call.arg)[1]
              /\ call.ret.len = RunLength(call.arg)
              /\ call.ret.language = InfoToken(call.arg)

\* an indented run of five tildes with an info string of two tokens
C25_Witness ==
    /\ call.op = "parse_fence_open"
    /\ call.arg = <<" ">> \o Rep(Tilde, 5) \o Chars(" nix x")
    /\ call.ret = [open |-> TRUE, char |-> Tilde, len |-> 5,
                   language |-> Some(Chars("nix"))]

(***************************************************************************)
(* Claims about the legacy inline type scanner                             *)
(***************************************************************************)
\* the characters of an identifier
IdentChars ==
    {UpperCase[k] : k \in 1..26} \cup {LowerCase[k] : k \in 1..26}
        \cup {Digits[k] : k \in 1..10} \cup {"_", "-", "'"}

\* the trimmed line has a first "::" with a non-empty identifier before it and
\* non-blank text after it
IsLegacyTypeLine(line) ==
    LET t == Trim(line)
    IN  \E k \in 1..(Len(t) - 1) :
            /\ t[k] = ":" /\ t[k + 1] = ":"
            /\ \A j \in 1..(k - 1) : ~(t[j] = ":" /\ t[j + 1] = ":")
            /\ Trim(SubSeq(t, 1, k - 1)) # <<>>
            /\ \A j \in 1..Len(Trim(SubSeq(t, 1, k - 1))) :
                  Trim(SubSeq(t, 1, k - 1))[j] \in IdentChars
            /\ Trim(SubSeq(t, k + 2, Len(t))) # <<>>

\* C26: on a document without a Type section the legacy scan returns the first
\* line of the description, trimmed and otherwise as written, whose text before
\* the first "::" is, once trimmed, a non-empty run of alphanumeric characters,
\* "_", "-" or "'" and whose text after it is not blank; none when no line of
\* the description qualifies.  A line with a space inside its prefix is never
\* returned, and the bodies of the sections are never read.
C26_LegacyTypeLine ==
    (call.op = "type_sig" /\ SectionsNamed(Chars("Type")) = {}) =>
        LET ls        == StrLines(description)
            qualifies == {i \in 1..Len(ls) : IsLegacyTypeLine(ls[i])}
        IN  IF qualifies = {} THEN call.ret = None
            ELSE call.ret = Some(Trim(ls[Min(qualifies)]))

\* the description whose first four lines have "::" without qualifying and whose
\* fifth does, in a document whose first section body is a qualifying line:
\* the fifth line of the description is returned, trimmed
C26_Witness ==
    /\ call.op = "type_sig"
    /\ Len(StrLines(description)) = 6
    /\ ~IsLegacyTypeLine(StrLines(description)[1])
    /\ IsLegacyTypeLine(StrLines(description)[6])
    /\ Len(sections) >= 1
    /\ IsLegacyTypeLine(sections[1].content)
    /\ call.ret = Some(Chars("g'-_1 :: h :: i"))

(***************************************************************************)
(* is_doc_comment (lib.rs 116-119) next to the delimiter checks of parse   *)
(***************************************************************************)
\* DocComment::is_doc_comment
is_doc_comment(text) ==
    LET t == Trim(text)
    IN  StartsWith(t, Chars("/**")) /\ EndsWith(t, Chars("*/"))

\* the texts handed to both: every wrapper around bodies of few lines
DelimiterInputs ==
    { w[1] \o Join(b, NL) \o w[2] :
          w \in {DocWrapper} \cup EdgeWrappers, b \in Bodies(MaxWrapLines) }

InitDelimiters == \E in \in DelimiterInputs : InitWith(in)

\* a call of is_doc_comment on the text that parse was given
CallIsDocComment ==
    /\ pc = "done"
    /\ call = NoCall
    /\ call' = [op |-> "is_doc_comment", arg |-> input, ret |-> is_doc_comment(input)]
    /\ UNCHANGED << input, pc, result, content, lines, idx, in_description,
                    in_code_block, fence_char, fence_len, current_heading,
                    description_lines, section_lines, sections, warnings,
                    description, ffi >>

NextDelimiters ==
    \/ ParseStart \/ SectionsLine \/ SectionsEnd \/ ClassifyWarnings
    \/ CallIsDocComment

SpecDelimiters == InitDelimiters /\ [][NextDelimiters]_vars

\* C27: is_doc_comment agrees with the delimiter checks of parse: it is true of
\* a text exactly when parse of that text returns neither NotDocComment nor
\* UnclosedComment.
C27_AgreesWithParse ==
    call.op = "is_doc_comment" =>
        (call.ret <=> result \notin {"NotDocComment", "UnclosedComment"})

(***************************************************************************)
(* Claims about the segmenter as a whole                                   *)
(***************************************************************************)
\* the lines of ls that are recognized as headings by the fencing rule
HeadingLines(ls) ==
    {k \in 1..Len(ls) : LooksLikeHeading(ls[k]) /\ ~FenceAfter(ls, k).open}

\* C29: when a fence opens in the normalized content and is never closed, no
\* line after it is recognized as a heading: the sections are exactly those of
\* the headings before the opening fence, and every later line, "# Heading"
\* lines included, is content of the buffer that was active when the fence
\* opened, the description or the body of the last section.
C29_UnclosedFenceSwallowsHeadings ==
    (pc = "done" /\ result = "Ok" /\ FenceAfter(lines, Len(lines)).open) =>
        LET before == {k \in HeadingLines(lines) : k < LastOpener(lines)}
        IN  /\ HeadingLines(lines) = before
            /\ Len(sections) = Cardinality(before)
            /\ \A j \in 1..Len(sections) :
                  sections[j].heading = TrimmedHeading(lines[Nth(before, j)])
            /\ IF before = {}
               THEN description = Trim(Join(lines, NL))
               ELSE sections[Len(sections)].content =
                        Trim(Join(SubSeq(lines, Max(before) + 1, Len(lines)), NL))

\* a heading, then a fence that is never closed, then a line "# Note": one
\* section, whose body holds the fence line and the "# Note" line
C29_Witness ==
    /\ pc = "done"
    /\ result = "Ok"
    /\ Len(lines) = 3
    /\ LooksLikeHeading(lines[1])
    /\ OpensFence(lines[2])
    /\ lines[3] = Chars("# Note")
    /\ Len(sections) = 1
    /\ sections[1].content = lines[2] \o NL \o lines[3]

\* the lines of ls after the j-th heading line of hs, up to the next heading
\* line of hs or, after the last one, up to line upto
Segment(ls, hs, j, upto) ==
    SubSeq(ls, Nth(hs, j) + 1,
           IF j < Cardinality(hs) THEN Nth(hs, j + 1) - 1 ELSE upto)

\* C30: the segmenter neither loses nor duplicates nor reorders lines.  After
\* idx lines the description buffer is the run of lines before the first
\* recognized heading and nothing else, the buffer of the open section is the
\* run of lines after the last recognized heading, and each flushed section's
\* body is the run of lines between its heading and the next one, joined and
\* trimmed; the description is its joined buffer, trimmed.
C30_LinesAreConserved ==
    (pc \in {"sections", "flushed"} \/ (pc = "done" /\ result = "Ok")) =>
        LET hs    == {k \in HeadingLines(lines) : k <= idx}
            n     == Cardinality(hs)
            first == IF hs = {} THEN idx + 1 ELSE Min(hs)
        IN  /\ description_lines = SubSeq(lines, 1, first - 1)
            /\ in_description <=> (hs = {})
            /\ Len(sections) = (IF pc = "sections" /\ n > 0 THEN n - 1 ELSE n)
            /\ \A j \in 1..Len(sections) :
                  sections[j].content = Trim(Join(Segment(lines, hs, j, idx), NL))
            /\ pc = "sections" =>
                  section_lines = (IF n > 0 THEN Segment(lines, hs, n, idx) ELSE <<>>)
            /\ pc # "sections" =>
                  description = Trim(Join(description_lines, NL))

\* a "# " line with no heading text, a heading, and a line of prose: the first
\* line is the description buffer and the last one the section's buffer
C30_Witness ==
    /\ pc = "done"
    /\ result = "Ok"
    /\ Len(lines) = 3
    /\ BlankHeading(lines[1])
    /\ LooksLikeHeading(lines[2])
    /\ ~LooksLikeHeading(lines[3])
    /\ description_lines = <<lines[1]>>
    /\ description = Trim(lines[1])
    /\ section_lines = <<lines[3]>>
    /\ Len(sections) = 1
    /\ sections[1].content = Trim(lines[3])
====
